---- MODULE Spec2Model ----
(***************************************************************************)
(* A model of opencode-manager: the OpencodeServer orchestrator            *)
(* (server.py), the IsolationManager (isolation.py), the ProcessManager    *)
(* (process.py), the ModelSelector (models.py), the SessionManager         *)
(* (session_manager.py), the Session (session.py) and the OpencodeClient   *)
(* (client.py).                                                            *)
(*                                                                         *)
(* Paths are sequences of components (absolute, symlink-free, so that      *)
(* Path.resolve() changes nothing).  Strings that the code builds from     *)
(* paths, or searches, are sequences of tokens: str(path) puts a "/"       *)
(* token before every component.  The filesystem is the set of the paths   *)
(* that exist.                                                             *)
(***************************************************************************)
EXTENDS Integers, Sequences, FiniteSets, TLC

VARIABLES
    ambient,    \* os.environ of the calling process: variable -> value
    fs,         \* the paths that exist
    server,     \* the OpencodeServer objects: instance -> fields
    procs,      \* the child processes spawned so far: pid -> record
    rmtreed,    \* history: some __exit__ has removed a sandbox directory
    iso,        \* the IsolationManager object: its fields
    envLog,     \* history: the get_environment() calls, <<os.environ, result>>
    pm,         \* the ProcessManager object: its fields
    pmProcs,    \* the children the ProcessManager has spawned: pid -> state
    pmOut,      \* the stdout pipe of the child in the ProcessManager's handle
    pmErr,      \* the stderr pipe of that child
    probe,      \* one run of OpencodeServer._wait_for_ready
    sel,        \* the ModelSelector, its two files and its last call
    sess,       \* the SessionManager, the remote sessions and its last call
    track,      \* one Session object, the remote messages and its last read
    poll,       \* a caller polling OpencodeClient.get_messages_since
    chosen,     \* the last OpencodeServer._get_default_model call
    called      \* the last session operation called on the OpencodeServer

vars == <<ambient, fs, server, procs, rmtreed, iso, envLog, pm, pmProcs, pmOut, pmErr,
          probe, sel, sess, track, poll, chosen, called>>

\* what the OpencodeServer does not touch
nonServerVars == <<iso, envLog, pm, pmProcs, pmOut, pmErr, probe, sel, sess,
                  track, poll, chosen, called>>

\* what the IsolationManager does not touch
nonIsoVars == <<server, procs, rmtreed, pm, pmProcs, pmOut, pmErr, probe, sel, sess,
                  track, poll, chosen, called>>

\* what the ProcessManager does not touch
nonPmVars == <<ambient, fs, server, procs, rmtreed, iso, envLog, probe, sel, sess,
                  track, poll, chosen, called>>

\* what the OpencodeServer, the IsolationManager and the ProcessManager keep
objectVars == <<ambient, fs, server, procs, rmtreed, iso, envLog, pm, pmProcs, pmOut, pmErr>>

(***************************************************************************)
(* Bounds                                                                  *)
(***************************************************************************)
MaxProcs == 2          \* child processes spawned in one behaviour
MaxEnvCalls == 2       \* get_environment() calls recorded in one behaviour
MaxIsoObjects == 2     \* IsolationManager objects made in one behaviour
MaxLines == 2          \* lines a child writes to its stdout
StartupTimeout == 2    \* startup_timeout, in poll intervals of select()
MaxLimit == 2          \* the largest limit given to get_output

Servers == {1, 2}      \* OpencodeServer objects

(***************************************************************************)
(* Paths and strings                                                       *)
(***************************************************************************)
\* PurePath.is_relative_to(q): p is q or q is an ancestor of p
IsRelativeTo(p, q) ==
    /\ Len(q) <= Len(p)
    /\ SubSeq(p, 1, Len(q)) = q

\* p is below q and is not q
StrictDescendant(p, q) == IsRelativeTo(p, q) /\ p # q

\* str(path) of an absolute path
Str(p) == [k \in 1..(2 * Len(p)) |-> IF k % 2 = 1 THEN "/" ELSE p[k \div 2]]

\* Path(string): the components between the separators
PathOf(s) == SelectSeq(s, LAMBDA t : t # "/")

\* `sub in s` for strings
Contains(s, sub) ==
    \E k \in 0..(Len(s) - Len(sub)) : SubSeq(s, k + 1, k + Len(sub)) = sub

\* every ancestor of p, and p
Prefixes(p) == {SubSeq(p, 1, k) : k \in 1..Len(p)}

\* Path.mkdir(parents=True, exist_ok=False): the tree after a successful call
MkdirParents(tree, p) == tree \cup Prefixes(p)

\* mutant: the contents are removed and the directory itself is left
RmtreeKeepsTop(tree, p) == {q \in tree : ~StrictDescendant(q, p)}

\* shutil.rmtree(p): the tree after a successful call
Rmtree(tree, p) == {q \in tree : ~IsRelativeTo(q, p)}

(***************************************************************************)
(* The machine the code runs on                                            *)
(***************************************************************************)
RealHome == <<"home", "u">>          \* Path.home()

AuthFile        == <<"in", "auth.json">>
ConfigDir       == <<"in", ".opencode">>
ConfigJson      == <<"in", "opencode.json">>
Binary          == <<"in", "opencode">>
NonExecutable   == <<"in", "opencode.txt">> \* a file without an execute bit
Missing         == <<"in", "missing">>      \* a path that does not exist

\* ~/.config exists, ~/.cache and ~/.local do not (yet)
InitialTree ==
    {<<"home">>, RealHome, RealHome \o <<".config">>, <<"tmp">>,
     <<"in">>, AuthFile, ConfigDir, ConfigJson, Binary, NonExecutable}

\* Path.is_file() of a path that exists: the regular files of the machine
IsFile(p) == p \in {AuthFile, ConfigJson, Binary, NonExecutable}

\* stat().st_mode & 0o111: the executable has mode 0755, the other files
\* 0644, the directories 0755
ExecBits(p) == p = Binary \/ ~IsFile(p)

\* os.access(p, os.X_OK), for the owner of the files
AccessXOk(tree, p) == p \in tree /\ ExecBits(p)

\* the target_dir values a caller passes
TargetDirs ==
    {<<"tmp", "sb">>,
     RealHome \o <<"work", "sb">>,
     RealHome \o <<".config", "sb">>,
     RealHome \o <<".cache", "sb">>,
     <<"xdg", "cfg", "sb">>,
     <<"xdg", "cache", "sb">>}

\* the values the ambient variables have when they are set
FullEnv ==
    [v \in {"LANG", "TEST_LEAK_VAR", "XDG_CONFIG_HOME", "XDG_CACHE_HOME"} |->
        CASE v = "LANG" -> <<"fr_FR.UTF-8">>
          [] v = "TEST_LEAK_VAR" -> <<"should_not_appear">>
          [] v = "XDG_CONFIG_HOME" -> Str(<<"xdg", "cfg">>)
          [] v = "XDG_CACHE_HOME" -> Str(<<"xdg", "cache">>)]

\* os.environ: any subset of the variables is set
AmbientEnvs == {[v \in D |-> FullEnv[v]] : D \in SUBSET (DOMAIN FullEnv)}

\* os.environ.get(name, default)
EnvGet(env, name, default) == IF name \in DOMAIN env THEN env[name] ELSE default

(***************************************************************************)
(* OpencodeServer (server.py)                                              *)
(***************************************************************************)
NoDirs == <<>>                       \* no xdg_dirs / isolated_dirs stored yet
None == 0                            \* no process handle
NoUrl == [port |-> 0]                \* base_url is None
UrlOfProc(p) == [port |-> p]         \* the URL child p prints on its stdout

\* _setup_environment: xdg_dirs
ServerXdgDirs(t) ==
    [n \in {"config", "data", "state", "cache", "runtime"} |->
        CASE n = "config" -> t \o <<".oc", "config">>
          [] n = "data" -> t \o <<".oc", "data">>
          [] n = "state" -> t \o <<".oc", "state">>
          [] n = "cache" -> t \o <<".cache">>
          [] n = "runtime" -> t \o <<".runtime">>]

\* _setup_environment: isolated_dirs
ServerIsolatedDirs(t) ==
    [n \in {"home", "tmp"} |->
        CASE n = "home" -> t \o <<".home">>
          [] n = "tmp" -> t \o <<".tmp">>]

\* {**xdg_dirs, **isolated_dirs}
MergeDirs(xdg, isolated) ==
    [n \in (DOMAIN xdg) \cup (DOMAIN isolated) |->
        IF n \in DOMAIN isolated THEN isolated[n] ELSE xdg[n]]

\* the order in which _setup_environment creates the directories
ServerDirOrder == <<"config", "data", "state", "cache", "runtime", "home", "tmp">>

\* what the copy steps of _setup_environment create
ServerLogFile(t) == t \o <<"opencode_server.log">>
AuthDest(xdg) == xdg["data"] \o <<"opencode", "auth.json">>
OpencodeDest(t) == t \o <<".opencode">>
OpencodeJsonDest(t) == t \o <<"opencode.json">>

\* _verify_isolation: sensitive_paths
SensitivePaths(env) ==
    {RealHome \o <<".config">>,
     RealHome \o <<".local">>,
     RealHome \o <<".cache">>,
     PathOf(EnvGet(env, "XDG_CONFIG_HOME", Str(RealHome \o <<".config">>))),
     PathOf(EnvGet(env, "XDG_DATA_HOME", Str(RealHome \o <<".local", "share">>)))}

\* str.startswith
StartsWith(s, prefix) ==
    /\ Len(prefix) <= Len(s)
    /\ SubSeq(s, 1, Len(prefix)) = prefix

\* OpencodeServer._verify_isolation raises: the try block raises ValueError for
\* a sensitive path, the except clause catches it and raises again when the
\* string comparison agrees; a directory outside target_dir raises ValueError,
\* which the (AttributeError, TypeError) clause lets through
ServerVerifyRaises(env, tree, target, dirs) ==
    \/ \E sp \in SensitivePaths(env) :
          /\ sp \in tree /\ IsRelativeTo(target, sp)
          /\ StartsWith(Str(target), Str(sp))
    \/ \E n \in DOMAIN dirs : ~IsRelativeTo(dirs[n], target)

SystemPath ==
    <<"/", "usr", "/", "local", "/", "bin", ":", "/", "usr", "/", "bin", ":", "/", "bin">>

\* _start_server: env
ServerEnv(env, xdg, isolated) ==
    [k \in {"XDG_CONFIG_HOME", "XDG_DATA_HOME", "XDG_STATE_HOME", "XDG_CACHE_HOME",
            "XDG_RUNTIME_DIR", "HOME", "TMPDIR", "TEMP", "TMP", "PATH",
            "LANG", "LC_ALL", "TERM", "USER", "LOGNAME"} |->
        CASE k = "XDG_CONFIG_HOME" -> Str(xdg["config"])
          [] k = "XDG_DATA_HOME" -> Str(xdg["data"])
          [] k = "XDG_STATE_HOME" -> Str(xdg["state"])
          [] k = "XDG_CACHE_HOME" -> Str(xdg["cache"])
          [] k = "XDG_RUNTIME_DIR" -> Str(xdg["runtime"])
          [] k = "HOME" -> Str(isolated["home"])
          [] k \in {"TMPDIR", "TEMP", "TMP"} -> Str(isolated["tmp"])
          [] k = "PATH" -> SystemPath
          [] k = "LANG" -> EnvGet(env, "LANG", <<"en_US.UTF-8">>)
          [] k = "LC_ALL" -> EnvGet(env, "LC_ALL", <<"C.UTF-8">>)
          [] k = "TERM" -> EnvGet(env, "TERM", <<"xterm-256color">>)
          [] k = "USER" -> EnvGet(env, "USER", <<"opencode">>)
          [] k = "LOGNAME" -> EnvGet(env, "LOGNAME", <<"opencode">>)]

\* the object before __init__ has run
NewServer ==
    [pc |-> "new", step |-> 0, target_dir |-> <<>>,
     delete_target_dir_on_exit |-> FALSE, opencode_binary |-> <<>>,
     xdg_dirs |-> NoDirs, isolated_dirs |-> NoDirs,
     process |-> None, base_url |-> NoUrl, client |-> NoUrl,
     err |-> "", verified |-> FALSE]

NoProc == [state |-> "unused", owner |-> 0, env |-> <<>>, verified |-> FALSE]

\* the pid the next Popen gets (MaxProcs + 1: none left)
NextPid ==
    IF \E p \in 1..MaxProcs : procs[p].state = "unused"
    THEN CHOOSE p \in 1..MaxProcs :
            /\ procs[p].state = "unused"
            /\ \A q \in 1..(p - 1) : procs[q].state # "unused"
    ELSE MaxProcs + 1

\* mutant: the check of target_dir is missing
InitErrorNoTargetCheck(tree, target, auth, cfgdir, json, binary) ==
    CASE auth \notin tree -> "FileNotFoundError"
      [] cfgdir \notin tree \/ cfgdir # ConfigDir -> "NotADirectoryError"
      [] json \notin tree -> "FileNotFoundError"
      [] binary \notin tree -> "FileNotFoundError"
      [] ~AccessXOk(tree, binary) -> "ValueError"
      [] OTHER -> ""

\* __init__: the exception the validation raises ("" when it passes)
InitError(tree, target, auth, cfgdir, json, binary) ==
    CASE auth \notin tree -> "FileNotFoundError"
      [] cfgdir \notin tree \/ cfgdir # ConfigDir -> "NotADirectoryError"
      [] json \notin tree -> "FileNotFoundError"
      [] binary \notin tree -> "FileNotFoundError"
      [] ~AccessXOk(tree, binary) -> "ValueError"
      [] target \in tree -> "FileExistsError"
      [] OTHER -> ""

\* OpencodeServer(target_dir, auth_file, opencode_config_dir, opencode_json,
\*                opencode_binary, delete_target_dir_on_exit), with the
\* opencode_binary taken from `binaries`
ConstructFrom(i, binaries) ==
    /\ server[i].pc = "new"
    /\ \E target \in TargetDirs, del \in BOOLEAN,
          auth \in {AuthFile, Missing}, cfgdir \in {ConfigDir, Missing},
          json \in {ConfigJson, Missing},
          binary \in binaries :
          LET e == InitError(fs, target, auth, cfgdir, json, binary) IN
          server' = [server EXCEPT ![i] =
              [@ EXCEPT !.pc = IF e = "" THEN "idle" ELSE "dead",
                        !.err = e,
                        !.target_dir = target,
                        !.opencode_binary = IF e = "" THEN binary ELSE <<>>,
                        !.delete_target_dir_on_exit = del]]
    /\ UNCHANGED <<ambient, fs, procs, rmtreed>>
    /\ UNCHANGED nonServerVars

\* the constructor called with an executable, a file that is not executable
\* or a path that does not exist
Construct(i) == ConstructFrom(i, {Binary, NonExecutable, Missing})

\* the constructor called with any of these or with a directory
ConstructAnyBinary(i) ==
    ConstructFrom(i, {Binary, NonExecutable, Missing, ConfigDir})

\* __enter__ is called
Enter(i) ==
    /\ server[i].pc = "idle"
    /\ NextPid <= MaxProcs
    /\ server' = [server EXCEPT ![i] =
          [@ EXCEPT !.pc = "mkdir", !.step = 1, !.err = "", !.verified = FALSE]]
    /\ UNCHANGED <<ambient, fs, procs, rmtreed>>
    /\ UNCHANGED nonServerVars

\* mutant: exist_ok=True
MkdirExistOk(tree, path) == FALSE

\* path.mkdir(parents=True, exist_ok=False) raises FileExistsError
MkdirRaises(tree, path) == path \in tree

\* _setup_environment: one turn of the loop that creates the directories
Mkdir(i) ==
    /\ server[i].pc = "mkdir"
    /\ LET t == server[i].target_dir
           path == MergeDirs(ServerXdgDirs(t), ServerIsolatedDirs(t))[ServerDirOrder[server[i].step]]
       IN IF MkdirRaises(fs, path)
          THEN /\ server' = [server EXCEPT ![i] =
                     [@ EXCEPT !.pc = "idle", !.step = 0, !.err = "FileExistsError"]]
               /\ fs' = fs
          ELSE /\ fs' = MkdirParents(fs, path)
               /\ server' = [server EXCEPT ![i] =
                     IF server[i].step = Len(ServerDirOrder)
                     THEN [@ EXCEPT !.pc = "copy", !.step = 0]
                     ELSE [@ EXCEPT !.step = @ + 1]]
    /\ UNCHANGED <<ambient, procs, rmtreed>>
    /\ UNCHANGED nonServerVars

\* _setup_environment: the log file, the copies, and the paths stored
Copy(i) ==
    /\ server[i].pc = "copy"
    /\ LET t == server[i].target_dir
           xdg == ServerXdgDirs(t)
       IN /\ fs' = fs \cup {ServerLogFile(t)} \cup Prefixes(AuthDest(xdg))
                      \cup {OpencodeDest(t), OpencodeJsonDest(t)}
          /\ server' = [server EXCEPT ![i] =
                [@ EXCEPT !.pc = "verify",
                          !.xdg_dirs = xdg,
                          !.isolated_dirs = ServerIsolatedDirs(t)]]
    /\ UNCHANGED <<ambient, procs, rmtreed>>
    /\ UNCHANGED nonServerVars

\* mutant: the violation is logged and __enter__ carries on
AfterVerifyWarnOnly(raised) == "start"

\* where __enter__ goes after _verify_isolation: on to _start_server, or out
\* with the exception
AfterVerify(raised) == IF raised THEN "idle" ELSE "start"

\* _setup_environment: self._verify_isolation()
Verify(i) ==
    /\ server[i].pc = "verify"
    /\ LET raised == ServerVerifyRaises(ambient, fs, server[i].target_dir,
                         MergeDirs(server[i].xdg_dirs, server[i].isolated_dirs))
       IN server' = [server EXCEPT ![i] =
              [@ EXCEPT !.pc = AfterVerify(raised),
                        !.err = IF raised THEN "ISOLATION VIOLATION" ELSE "",
                        !.verified = ~raised]]
    /\ UNCHANGED <<ambient, fs, procs, rmtreed>>
    /\ UNCHANGED nonServerVars

\* subprocess.Popen([binary, "serve"], ...) cannot execute the path
PopenRaises(tree, binary) ==
    ~(binary \in tree /\ IsFile(binary) /\ ExecBits(binary))

\* _start_server: the child is spawned with the isolated environment and the
\* reader threads are started
StartServer(i) ==
    /\ server[i].pc = "start"
    /\ NextPid <= MaxProcs
    /\ IF PopenRaises(fs, server[i].opencode_binary)
       THEN /\ procs' = procs
            /\ server' = [server EXCEPT ![i] =
                  [@ EXCEPT !.pc = "idle", !.err = "PermissionError"]]
       ELSE /\ procs' = [procs EXCEPT ![NextPid] =
                  [state |-> "alive", owner |-> i,
                   env |-> ServerEnv(ambient, server[i].xdg_dirs, server[i].isolated_dirs),
                   verified |-> server[i].verified]]
            /\ server' = [server EXCEPT ![i] =
                  [@ EXCEPT !.pc = "wait_url", !.process = NextPid]]
    /\ UNCHANGED <<ambient, fs, rmtreed>>
    /\ UNCHANGED nonServerVars

\* _read_output on the stdout of child p: the URL line is read, and recorded
\* unless a base_url is already there
ReadOutput(p) ==
    /\ procs[p].state \in {"alive", "exited"}
    /\ server[procs[p].owner].base_url = NoUrl
    /\ server' = [server EXCEPT ![procs[p].owner] = [@ EXCEPT !.base_url = UrlOfProc(p)]]
    /\ UNCHANGED <<ambient, fs, procs, rmtreed>>
    /\ UNCHANGED nonServerVars

\* the child exits by itself
ChildExit(p) ==
    /\ procs[p].state = "alive"
    /\ procs' = [procs EXCEPT ![p] = [@ EXCEPT !.state = "exited"]]
    /\ UNCHANGED <<ambient, fs, server, rmtreed>>
    /\ UNCHANGED nonServerVars

\* _wait_for_ready: the first loop ends with a base_url, and the client is made
WaitUrlFound(i) ==
    /\ server[i].pc = "wait_url"
    /\ server[i].base_url # NoUrl
    /\ server' = [server EXCEPT ![i] = [@ EXCEPT !.pc = "health", !.client = server[i].base_url]]
    /\ UNCHANGED <<ambient, fs, procs, rmtreed>>
    /\ UNCHANGED nonServerVars

\* _wait_for_ready: the startup timeout passes with no base_url
WaitUrlTimeout(i) ==
    /\ server[i].pc = "wait_url"
    /\ server[i].base_url = NoUrl
    /\ server' = [server EXCEPT ![i] = [@ EXCEPT !.pc = "idle", !.err = "TimeoutError"]]
    /\ UNCHANGED <<ambient, fs, procs, rmtreed>>
    /\ UNCHANGED nonServerVars

\* _wait_for_ready: a health call to the client's URL succeeds
HealthOk(i) ==
    /\ server[i].pc = "health"
    /\ procs[server[i].client.port].state = "alive"
    /\ server' = [server EXCEPT ![i] = [@ EXCEPT !.pc = "idle", !.err = ""]]
    /\ UNCHANGED <<ambient, fs, procs, rmtreed>>
    /\ UNCHANGED nonServerVars

\* _wait_for_ready: the startup timeout passes with no health call succeeding
HealthTimeout(i) ==
    /\ server[i].pc = "health"
    /\ server' = [server EXCEPT ![i] = [@ EXCEPT !.pc = "idle", !.err = "TimeoutError"]]
    /\ UNCHANGED <<ambient, fs, procs, rmtreed>>
    /\ UNCHANGED nonServerVars

\* mutant: the child is signalled but not waited for
AfterShutdownNotReaped(state) == "exited"

\* mutant: terminate() is sent and nothing waits for its effect
AfterShutdownTerminateOnly(state) == IF state = "alive" THEN "alive" ELSE state

\* mutant: the handle is dropped without the child being stopped
AfterShutdownLeftRunning(state) == state

\* _shutdown_server: the child after terminate(), wait(timeout=5) and, when
\* the grace period runs out, kill() and wait()
AfterShutdown(state) == "reaped"

\* __exit__: _shutdown_server, and the handle cleared
ExitShutdown(i) ==
    /\ server[i].pc = "idle"
    /\ procs' = IF server[i].process = None THEN procs
                ELSE [procs EXCEPT ![server[i].process] =
                         [@ EXCEPT !.state = AfterShutdown(@)]]
    /\ server' = [server EXCEPT ![i] =
          [@ EXCEPT !.pc = "exit_cleanup", !.process = None, !.err = ""]]
    /\ UNCHANGED <<ambient, fs, rmtreed>>
    /\ UNCHANGED nonServerVars

\* __exit__: the directory removed or preserved
ExitCleanup(i) ==
    /\ server[i].pc = "exit_cleanup"
    /\ IF server[i].delete_target_dir_on_exit
       THEN IF server[i].target_dir \in fs
            THEN /\ fs' = Rmtree(fs, server[i].target_dir)
                 /\ rmtreed' = TRUE
                 /\ server' = [server EXCEPT ![i] = [@ EXCEPT !.pc = "idle"]]
            ELSE /\ server' = [server EXCEPT ![i] =
                       [@ EXCEPT !.pc = "idle", !.err = "FileNotFoundError"]]
                 /\ UNCHANGED <<fs, rmtreed>>
       ELSE /\ server' = [server EXCEPT ![i] = [@ EXCEPT !.pc = "idle"]]
            /\ UNCHANGED <<fs, rmtreed>>
    /\ UNCHANGED <<ambient, procs>>
    /\ UNCHANGED nonServerVars

(***************************************************************************)
(* IsolationManager (isolation.py)                                         *)
(***************************************************************************)
\* mutant: the cache directory is the user's own
IsoXdgDirsRealCache(t) ==
    [n \in {"config", "data", "cache", "runtime"} |->
        CASE n = "config" -> t \o <<".oc", "config">>
          [] n = "data" -> t \o <<".oc", "data">>
          [] n = "cache" -> RealHome \o <<".cache">>
          [] n = "runtime" -> t \o <<".runtime">>]

\* setup_environment: xdg_dirs
IsoXdgDirs(t) ==
    [n \in {"config", "data", "cache", "runtime"} |->
        CASE n = "config" -> t \o <<".oc", "config">>
          [] n = "data" -> t \o <<".oc", "data">>
          [] n = "cache" -> t \o <<".cache">>
          [] n = "runtime" -> t \o <<".runtime">>]

\* setup_environment: isolated_dirs
IsoIsolatedDirs(t) ==
    [n \in {"home", "tmp"} |->
        CASE n = "home" -> t \o <<".home">>
          [] n = "tmp" -> t \o <<".tmp">>]

\* the order in which setup_environment creates the directories
IsoDirOrder == <<"config", "data", "cache", "runtime", "home", "tmp">>

\* IsolationManager._verify_isolation raises IsolationError
IsoVerifyRaises(env, tree, target, dirs) ==
    \/ \E sp \in SensitivePaths(env) : sp \in tree /\ IsRelativeTo(target, sp)
    \/ \E n \in DOMAIN dirs : ~IsRelativeTo(dirs[n], target)

\* mutant: the dictionary starts as a copy of os.environ
IsoEnvInherited(env, xdg, isolated) ==
    [k \in (DOMAIN env) \cup {"XDG_CONFIG_HOME", "XDG_DATA_HOME", "XDG_CACHE_HOME",
            "XDG_RUNTIME_DIR", "HOME", "TMPDIR", "TEMP", "TMP", "PATH",
            "LANG", "LC_ALL", "TERM", "USER", "LOGNAME"} |->
        CASE k = "XDG_CONFIG_HOME" -> Str(xdg["config"])
          [] k = "XDG_DATA_HOME" -> Str(xdg["data"])
          [] k = "XDG_CACHE_HOME" -> Str(xdg["cache"])
          [] k = "XDG_RUNTIME_DIR" -> Str(xdg["runtime"])
          [] k = "HOME" -> Str(isolated["home"])
          [] k \in {"TMPDIR", "TEMP", "TMP"} -> Str(isolated["tmp"])
          [] k = "PATH" -> SystemPath
          [] k = "LANG" -> EnvGet(env, "LANG", <<"en_US.UTF-8">>)
          [] k = "LC_ALL" -> EnvGet(env, "LC_ALL", <<"C.UTF-8">>)
          [] k = "TERM" -> EnvGet(env, "TERM", <<"xterm-256color">>)
          [] k = "USER" -> EnvGet(env, "USER", <<"opencode">>)
          [] k = "LOGNAME" -> EnvGet(env, "LOGNAME", <<"opencode">>)
          [] OTHER -> env[k]]

\* get_environment: the returned dictionary
IsoEnv(env, xdg, isolated) ==
    [k \in {"XDG_CONFIG_HOME", "XDG_DATA_HOME", "XDG_CACHE_HOME",
            "XDG_RUNTIME_DIR", "HOME", "TMPDIR", "TEMP", "TMP", "PATH",
            "LANG", "LC_ALL", "TERM", "USER", "LOGNAME"} |->
        CASE k = "XDG_CONFIG_HOME" -> Str(xdg["config"])
          [] k = "XDG_DATA_HOME" -> Str(xdg["data"])
          [] k = "XDG_CACHE_HOME" -> Str(xdg["cache"])
          [] k = "XDG_RUNTIME_DIR" -> Str(xdg["runtime"])
          [] k = "HOME" -> Str(isolated["home"])
          [] k \in {"TMPDIR", "TEMP", "TMP"} -> Str(isolated["tmp"])
          [] k = "PATH" -> SystemPath
          [] k = "LANG" -> EnvGet(env, "LANG", <<"en_US.UTF-8">>)
          [] k = "LC_ALL" -> EnvGet(env, "LC_ALL", <<"C.UTF-8">>)
          [] k = "TERM" -> EnvGet(env, "TERM", <<"xterm-256color">>)
          [] k = "USER" -> EnvGet(env, "USER", <<"opencode">>)
          [] k = "LOGNAME" -> EnvGet(env, "LOGNAME", <<"opencode">>)]

\* the object before __init__ has run
NewIsolationManager ==
    [pc |-> "new", step |-> 0, target_dir |-> <<>>,
     xdg_dirs |-> NoDirs, isolated_dirs |-> NoDirs, err |-> "", setup_ok |-> FALSE,
     nth |-> 0]

\* IsolationManager(target_dir): a new object, an earlier one is dropped
IsoConstruct ==
    /\ iso.pc \in {"new", "dead", "idle"}
    /\ iso.nth < MaxIsoObjects
    /\ \E target \in TargetDirs :
          iso' = [NewIsolationManager EXCEPT
                     !.nth = iso.nth + 1,
                     !.pc = IF target \in fs THEN "dead" ELSE "idle",
                     !.err = IF target \in fs THEN "FileExistsError" ELSE "",
                     !.target_dir = target]
    /\ UNCHANGED <<ambient, fs, envLog>>
    /\ UNCHANGED nonIsoVars

\* mutant: opencode_json is not looked at
SetupInputErrorNoJsonCheck(tree, auth, cfgdir, json) ==
    CASE auth \notin tree -> "ConfigurationError: Auth file not found"
      [] cfgdir \notin tree \/ cfgdir # ConfigDir -> "ConfigurationError: Config directory not found"
      [] OTHER -> ""

\* the inputs of a setup_environment call that are not there
MissingInputs(tree, auth, cfgdir, json) ==
    {n \in {"auth_file", "opencode_config_dir", "opencode_json"} :
        \/ n = "auth_file" /\ auth \notin tree
        \/ n = "opencode_config_dir" /\ (cfgdir \notin tree \/ cfgdir # ConfigDir)
        \/ n = "opencode_json" /\ json \notin tree}

\* setup_environment: the exception the validation raises ("" when it passes)
SetupInputError(tree, auth, cfgdir, json) ==
    CASE auth \notin tree -> "ConfigurationError: Auth file not found"
      [] cfgdir \notin tree \/ cfgdir # ConfigDir -> "ConfigurationError: Config directory not found"
      [] json \notin tree -> "ConfigurationError: Config file not found"
      [] OTHER -> ""

\* setup_environment(auth_file, opencode_config_dir, opencode_json): the
\* inputs are validated and the paths are stored
IsoSetupWith(auth, cfgdir, json) ==
    /\ iso.pc = "idle"
    /\ LET e == SetupInputError(fs, auth, cfgdir, json) IN
          iso' = IF e # ""
                 THEN [iso EXCEPT !.err = e, !.setup_ok = FALSE]
                 ELSE [iso EXCEPT !.pc = "mkdir", !.step = 1, !.err = "",
                                  !.setup_ok = FALSE,
                                  !.xdg_dirs = IsoXdgDirs(iso.target_dir),
                                  !.isolated_dirs = IsoIsolatedDirs(iso.target_dir)]
    /\ UNCHANGED <<ambient, fs, envLog>>
    /\ UNCHANGED nonIsoVars

\* setup_environment is called, each input there or not
IsoSetup ==
    \E auth \in {AuthFile, Missing}, cfgdir \in {ConfigDir, Missing},
       json \in {ConfigJson, Missing} : IsoSetupWith(auth, cfgdir, json)

\* mutant: the sandbox is removed when setup_environment raises
AfterSetupFailureRollback(tree, target) == Rmtree(tree, target)

\* the file system when an exception leaves setup_environment: the method
\* has no try, except or finally, nothing is undone
AfterSetupFailure(tree, target) == tree

\* setup_environment: one turn of the loop that creates the directories
IsoMkdir ==
    /\ iso.pc = "mkdir"
    /\ LET path == MergeDirs(iso.xdg_dirs, iso.isolated_dirs)[IsoDirOrder[iso.step]]
       IN IF MkdirRaises(fs, path)
          THEN /\ iso' = [iso EXCEPT !.pc = "idle", !.step = 0, !.err = "FileExistsError"]
               /\ fs' = AfterSetupFailure(fs, iso.target_dir)
          ELSE /\ fs' = MkdirParents(fs, path)
               /\ iso' = IF iso.step = Len(IsoDirOrder)
                         THEN [iso EXCEPT !.pc = "copy", !.step = 0]
                         ELSE [iso EXCEPT !.step = @ + 1]
    /\ UNCHANGED <<ambient, envLog>>
    /\ UNCHANGED nonIsoVars

\* setup_environment: auth.json, .opencode and opencode.json are copied
IsoCopy ==
    /\ iso.pc = "copy"
    /\ fs' = fs \cup Prefixes(AuthDest(iso.xdg_dirs))
                \cup {OpencodeDest(iso.target_dir), OpencodeJsonDest(iso.target_dir)}
    /\ iso' = [iso EXCEPT !.pc = "verify"]
    /\ UNCHANGED <<ambient, envLog>>
    /\ UNCHANGED nonIsoVars

\* setup_environment: self._verify_isolation()
IsoVerify ==
    /\ iso.pc = "verify"
    /\ LET raised == IsoVerifyRaises(ambient, fs, iso.target_dir,
                                     MergeDirs(iso.xdg_dirs, iso.isolated_dirs))
       IN /\ iso' = [iso EXCEPT !.pc = "idle",
                                !.err = IF raised THEN "IsolationError" ELSE "",
                                !.setup_ok = ~raised]
          /\ fs' = IF raised THEN AfterSetupFailure(fs, iso.target_dir) ELSE fs
    /\ UNCHANGED <<ambient, envLog>>
    /\ UNCHANGED nonIsoVars

\* get_environment()
IsoGetEnvironment ==
    /\ iso.pc = "idle"
    /\ Len(envLog) < MaxEnvCalls
    /\ IF iso.xdg_dirs = NoDirs
       THEN /\ iso' = [iso EXCEPT !.err = "KeyError"]
            /\ envLog' = envLog
       ELSE /\ iso' = [iso EXCEPT !.err = ""]
            /\ envLog' = Append(envLog,
                  [environ |-> ambient,
                   target_dir |-> iso.target_dir,
                   env |-> IsoEnv(ambient, iso.xdg_dirs, iso.isolated_dirs)])
    /\ UNCHANGED <<ambient, fs>>
    /\ UNCHANGED nonIsoVars

\* cleanup(preserve)
IsoCleanup ==
    /\ iso.pc = "idle"
    /\ \E preserve \in BOOLEAN :
          IF preserve
          THEN /\ iso' = [iso EXCEPT !.err = ""]
               /\ fs' = fs
          ELSE IF iso.target_dir \in fs
               THEN /\ fs' = Rmtree(fs, iso.target_dir)
                    /\ iso' = [iso EXCEPT !.err = ""]
               ELSE /\ fs' = fs
                    /\ iso' = [iso EXCEPT !.err = "FileNotFoundError"]
    /\ UNCHANGED <<ambient, envLog>>
    /\ UNCHANGED nonIsoVars

\* the calling process changes its own environment (os.environ[...] = ...)
SetAmbient ==
    /\ iso.pc = "idle"
    /\ Len(envLog) < MaxEnvCalls
    /\ \E a \in AmbientEnvs : a # ambient /\ ambient' = a
    /\ UNCHANGED <<fs, iso, envLog>>
    /\ UNCHANGED nonIsoVars

(***************************************************************************)
(* ProcessManager (process.py)                                             *)
(*                                                                         *)
(* A line of output is a sequence of tokens: words, the " " between them,  *)
(* and the parts of a URL.  readline() returns the line with "\n" at its   *)
(* end, and the empty string at end of file.                               *)
(***************************************************************************)
NoMatch == <<>>                      \* re.search found nothing

\* the lines a child may write
ExampleLine ==
    <<"Server", " ", "running", " ", "at", " ", "http://", "127.0.0.1", ":", "54321">>
Lines ==
    {ExampleLine,
     <<"starting">>,
     <<>>,
     <<"see", " ", "http://", "10.0.0.1", ":", "80", "/x", " ",
       "Listening", " ", "on", " ", "HTTPS://", "localhost", ":", "4096">>,
     <<"api", " ", "at", " ", "http://", "10.0.0.1", ":", "80", "/x">>}

\* re.IGNORECASE: the token in lower case
Lower(t) ==
    CASE t = "Server" -> "server"
      [] t = "Listening" -> "listening"
      [] t = "HTTPS://" -> "https://"
      [] OTHER -> t

IsScheme(t) == Lower(t) \in {"http://", "https://"}     \* https?://
IsIp(t) == t \in {"127.0.0.1", "10.0.0.1"}              \* \d+\.\d+\.\d+\.\d+
IsDigits(t) == t \in {"54321", "80", "4096"}            \* \d+

\* URL_PATTERNS: the literal in front of the group of the first three
PatternLiteral ==
    << <<"server", " ", "running", " ", "at", " ">>,
       <<"listening", " ", "on", " ">>,
       <<"server", " ", "listening", " ", "on", " ">>,
       <<>> >>

\* the literal of a pattern stands at position k of the line
LiteralAt(lit, line, k) ==
    /\ k + Len(lit) - 1 <= Len(line)
    /\ \A j \in 1..Len(lit) : Lower(line[k + j - 1]) = lit[j]

\* (https?://[^\s]+) at position g: the last position of the group, 0 if none
UrlGroupEnd(line, g) ==
    IF g + 1 <= Len(line) /\ IsScheme(line[g]) /\ line[g + 1] # " "
    THEN CHOOSE e \in (g + 1)..Len(line) :
            /\ \A j \in (g + 1)..e : line[j] # " "
            /\ e = Len(line) \/ line[e + 1] = " "
    ELSE 0

\* (https?://\d+\.\d+\.\d+\.\d+:\d+) at position g
IpGroupAt(line, g) ==
    /\ g + 3 <= Len(line)
    /\ IsScheme(line[g]) /\ IsIp(line[g + 1]) /\ line[g + 2] = ":" /\ IsDigits(line[g + 3])

\* pattern n matches with its literal at position k
MatchesAt(n, line, k) ==
    IF n = 4 THEN IpGroupAt(line, k)
    ELSE LiteralAt(PatternLiteral[n], line, k)
            /\ UrlGroupEnd(line, k + Len(PatternLiteral[n])) > 0

\* re.search(URL_PATTERNS[n], line, re.IGNORECASE): match.group(1) of the
\* leftmost match, or NoMatch
Search(n, line) ==
    IF \E k \in 1..Len(line) : MatchesAt(n, line, k)
    THEN LET k == CHOOSE k \in 1..Len(line) :
                    /\ MatchesAt(n, line, k)
                    /\ \A j \in 1..(k - 1) : ~MatchesAt(n, line, j)
             g == k + Len(PatternLiteral[n])
         IN IF n = 4 THEN SubSeq(line, k, k + 3)
            ELSE SubSeq(line, g, UrlGroupEnd(line, g))
    ELSE NoMatch

\* mutant: the last pattern that matches gives the URL
MatchUrlLastPattern(line) ==
    IF \E n \in 1..Len(PatternLiteral) : Search(n, line) # NoMatch
    THEN Search(CHOOSE n \in 1..Len(PatternLiteral) :
                   /\ Search(n, line) # NoMatch
                   /\ \A m \in (n + 1)..Len(PatternLiteral) : Search(m, line) = NoMatch,
                line)
    ELSE NoMatch

\* wait_for_url: `for pattern in URL_PATTERNS`, the first pattern that matches
MatchUrl(line) ==
    IF \E n \in 1..Len(PatternLiteral) : Search(n, line) # NoMatch
    THEN Search(CHOOSE n \in 1..Len(PatternLiteral) :
                   /\ Search(n, line) # NoMatch
                   /\ \A m \in 1..(n - 1) : Search(m, line) = NoMatch,
                line)
    ELSE NoMatch

\* MatchUrl of each line a child can write
UrlOfLine == [line \in Lines |-> MatchUrl(line)]

\* str.rstrip("\n")
Rstrip(raw) ==
    IF raw # <<>> /\ raw[Len(raw)] = "\n" THEN SubSeq(raw, 1, Len(raw) - 1) ELSE raw

\* the pipe of a child that has written nothing: the lines written, whether
\* the last of them still lacks its "\n", how many of them Python has taken
\* into its buffer, how many readline() has returned, and whether the child
\* holds the write end open
NewPipe ==
    [written |-> <<>>, partial |-> FALSE, pulled |-> 0, consumed |-> 0, open |-> FALSE]

\* the lines of the pipe that have their "\n"
Complete(out) == Len(out.written) - (IF out.partial THEN 1 ELSE 0)

\* select.select([stdout], [], [], timeout) reports stdout: the pipe holds
\* data or is at end of file
SelectReady(out) == out.pulled < Len(out.written) \/ ~out.open

\* stdout.readline() returns: a whole line is there, or the stream is at end
\* of file; otherwise the call blocks until the child writes "\n" or closes
ReadlineReturns(out) == out.consumed < Complete(out) \/ ~out.open

\* stdout.readline(): the next line with its "\n", at end of file what is
\* left of an unfinished line, or ""
Readline(out) ==
    IF out.consumed < Len(out.written)
    THEN out.written[out.consumed + 1]
            \o (IF out.consumed + 1 > Complete(out) THEN <<>> ELSE <<"\n">>)
    ELSE <<>>

\* the pipe after readline(): what the pipe held is in Python's buffer now
AfterReadline(out) ==
    [out EXCEPT !.pulled = IF out.consumed < out.pulled THEN @ ELSE Len(out.written),
                !.consumed = IF out.consumed < Len(out.written) THEN @ + 1 ELSE @]

\* stderr.read(): everything up to end of file is taken
ReadAll(out) ==
    [out EXCEPT !.pulled = Len(out.written), !.consumed = Len(out.written)]

\* the object before __init__ has run
NewProcessManager ==
    [pc |-> "new", process |-> None, base_url |-> <<>>,
     op |-> "", outcome |-> "", result |-> <<>>,
     elapsed |-> 0, read |-> <<>>, before |-> 0, started |-> FALSE,
     eof |-> FALSE, signals |-> <<>>, in_grace |-> FALSE,
     asked |-> 0, limit |-> 0, ready |-> <<>>, opencode_binary |-> <<>>]

\* ProcessManager(opencode_binary, ...)
PmConstruct ==
    /\ pm.pc = "new"
    /\ \E binary \in {Binary, NonExecutable, ConfigDir, Missing} :
          LET e == CASE binary \notin fs -> "FileNotFoundError"
                     [] ~IsFile(binary) -> "ValueError: not a file"
                     [] ~ExecBits(binary) -> "ValueError: not executable"
                     [] OTHER -> ""
          IN pm' = [pm EXCEPT !.pc = IF e = "" THEN "idle" ELSE "dead",
                              !.opencode_binary = IF e = "" THEN binary ELSE <<>>,
                              !.op = "init", !.outcome = e]
    /\ UNCHANGED <<pmProcs, pmOut, pmErr>>
    /\ UNCHANGED nonPmVars

\* the pid the next Popen of the ProcessManager gets
PmNextPid ==
    IF \E p \in 1..MaxProcs : pmProcs[p] = "unused"
    THEN CHOOSE p \in 1..MaxProcs :
            /\ pmProcs[p] = "unused"
            /\ \A q \in 1..(p - 1) : pmProcs[q] # "unused"
    ELSE MaxProcs + 1

\* start: raise ServerStartupError("Server is already running")
StartupErrorRunning == "ServerStartupError: Server is already running"

\* mutant: start() does not look at the handle
NeverRunning(handle, states) == FALSE

\* start: `self._process and self._process.poll() is None`
AlreadyRunning(handle, states) == handle # None /\ states[handle] = "alive"

\* start(env, port, hostname)
PmStart ==
    /\ pm.pc = "idle"
    /\ IF AlreadyRunning(pm.process, pmProcs)
       THEN /\ pm' = [pm EXCEPT !.signals = <<>>, !.in_grace = FALSE, !.op = "start",
                                !.outcome = StartupErrorRunning]
            /\ UNCHANGED <<pmProcs, pmOut, pmErr>>
       ELSE \/ /\ PmNextPid <= MaxProcs
               /\ pmProcs' = [p \in 1..MaxProcs |->
                     IF p = PmNextPid THEN "alive"
                     ELSE IF p = pm.process /\ pmProcs[p] = "exited" THEN "reaped"
                     ELSE pmProcs[p]]
               /\ pmOut' = [NewPipe EXCEPT !.open = TRUE]
               /\ pmErr' = [NewPipe EXCEPT !.open = TRUE]
               /\ pm' = [pm EXCEPT !.signals = <<>>, !.in_grace = FALSE, !.op = "start", !.outcome = "ok",
                                   !.process = PmNextPid, !.started = TRUE]
            \/ /\ pm' = [pm EXCEPT !.signals = <<>>, !.in_grace = FALSE, !.op = "start",
                                   !.outcome = "ServerStartupError: Failed to start server"]
               /\ pmProcs' = [p \in 1..MaxProcs |->
                     IF p = pm.process /\ pmProcs[p] = "exited" THEN "reaped"
                     ELSE pmProcs[p]]
               /\ UNCHANGED <<pmOut, pmErr>>
    /\ UNCHANGED nonPmVars

\* the child in the handle writes a line to its stdout
PmChildWrite ==
    /\ pm.process # None
    /\ pmProcs[pm.process] = "alive"
    /\ pmOut.open
    /\ ~pmOut.partial
    /\ Len(pmOut.written) < MaxLines
    /\ \E line \in Lines : pmOut' = [pmOut EXCEPT !.written = Append(@, line)]
    /\ UNCHANGED <<pm, pmProcs, pmErr>>
    /\ UNCHANGED nonPmVars

\* the child in the handle writes the text of a line without the "\n"
PmChildWritePartial ==
    /\ pm.process # None
    /\ pmProcs[pm.process] = "alive"
    /\ pmOut.open
    /\ ~pmOut.partial
    /\ Len(pmOut.written) < MaxLines
    /\ \E line \in Lines \ {<<>>} :
          pmOut' = [pmOut EXCEPT !.written = Append(@, line), !.partial = TRUE]
    /\ UNCHANGED <<pm, pmProcs, pmErr>>
    /\ UNCHANGED nonPmVars

\* the child in the handle writes the "\n" of its unfinished line
PmChildWriteNewline ==
    /\ pm.process # None
    /\ pmProcs[pm.process] = "alive"
    /\ pmOut.open
    /\ pmOut.partial
    /\ pmOut' = [pmOut EXCEPT !.partial = FALSE,
                              !.pulled = IF @ = Len(pmOut.written) THEN @ - 1 ELSE @]
    /\ UNCHANGED <<pm, pmProcs, pmErr>>
    /\ UNCHANGED nonPmVars

\* the child in the handle closes its stdout and goes on running
PmChildCloseStdout ==
    /\ pm.process # None
    /\ pmProcs[pm.process] = "alive"
    /\ pmOut.open
    /\ pmOut' = [pmOut EXCEPT !.open = FALSE]
    /\ UNCHANGED <<pm, pmProcs, pmErr>>
    /\ UNCHANGED nonPmVars

\* a child exits by itself; its end of the pipe is closed
PmChildExit ==
    /\ \E p \in 1..MaxProcs :
          /\ pmProcs[p] = "alive"
          /\ pmProcs' = [pmProcs EXCEPT ![p] = "exited"]
          /\ pmOut' = IF p = pm.process THEN [pmOut EXCEPT !.open = FALSE] ELSE pmOut
          /\ pmErr' = IF p = pm.process THEN [pmErr EXCEPT !.open = FALSE] ELSE pmErr
    /\ UNCHANGED pm
    /\ UNCHANGED nonPmVars

\* wait_for_url() is called
PmWaitForUrl ==
    /\ pm.pc = "idle"
    /\ IF pm.process = None
       THEN pm' = [pm EXCEPT !.signals = <<>>, !.in_grace = FALSE, !.op = "wait_for_url",
                             !.outcome = "ServerStartupError: Server process not started",
                             !.result = <<>>, !.read = <<>>]
       ELSE pm' = [pm EXCEPT !.signals = <<>>, !.in_grace = FALSE,
                             !.pc = "waiting", !.op = "wait_for_url", !.outcome = "",
                             !.result = <<>>, !.read = <<>>, !.elapsed = 0,
                             !.before = pmOut.consumed, !.eof = FALSE]
    /\ UNCHANGED <<pmProcs, pmOut, pmErr>>
    /\ UNCHANGED nonPmVars

\* wait_for_url: `if not line`
IsEof(raw) == raw = <<>>

\* wait_for_url: one turn of the loop; select() waits a poll interval when
\* stdout has nothing
PmWaitPoll ==
    /\ pm.pc = "waiting"
    /\ pm.elapsed < StartupTimeout
    /\ SelectReady(pmOut) => ReadlineReturns(pmOut)
    /\ IF SelectReady(pmOut)
       THEN \E raw \in {Readline(pmOut)} :
            \E url \in {IF IsEof(raw) THEN NoMatch ELSE UrlOfLine[Rstrip(raw)]} :
               /\ pmOut' = AfterReadline(pmOut)
               /\ \E passed \in {0, 1} :
                     pm' = IF IsEof(raw) THEN [pm EXCEPT !.pc = "after_loop", !.eof = TRUE]
                           ELSE IF url # NoMatch
                           THEN [pm EXCEPT !.pc = "idle", !.outcome = "url",
                                           !.result = url, !.base_url = url,
                                           !.read = Append(@, Rstrip(raw))]
                           ELSE [pm EXCEPT !.read = Append(@, Rstrip(raw)),
                                           !.elapsed = @ + passed]
       ELSE /\ pm' = [pm EXCEPT !.elapsed = @ + 1]
            /\ pmOut' = pmOut
    /\ UNCHANGED <<pmProcs, pmErr>>
    /\ UNCHANGED nonPmVars

\* wait_for_url: the loop ends because the time is up
PmWaitDeadline ==
    /\ pm.pc = "waiting"
    /\ pm.elapsed >= StartupTimeout
    /\ pm' = [pm EXCEPT !.pc = "after_loop"]
    /\ UNCHANGED <<pmProcs, pmOut, pmErr>>
    /\ UNCHANGED nonPmVars

\* wait_for_url: raise ServerStartupError("Server process died during startup...")
StartupErrorDied == "ServerStartupError: Server process died during startup"

\* wait_for_url: after the loop, poll() decides between the two errors
PmWaitRaise ==
    /\ pm.pc = "after_loop"
    /\ IF pmProcs[pm.process] # "alive"
       THEN /\ pm' = [pm EXCEPT !.pc = "idle",
                                !.outcome = StartupErrorDied]
            /\ pmProcs' = [pmProcs EXCEPT ![pm.process] = "reaped"]
            /\ pmErr' = ReadAll(pmErr)
       ELSE /\ pm' = [pm EXCEPT !.pc = "idle", !.outcome = "TimeoutError"]
            /\ UNCHANGED <<pmProcs, pmErr>>
    /\ UNCHANGED pmOut
    /\ UNCHANGED nonPmVars

\* the lines a child may write to its stderr
ErrLines == {<<"error">>}

\* the child in the handle writes a line to its stderr
PmChildWriteErr ==
    /\ pm.process # None
    /\ pmProcs[pm.process] = "alive"
    /\ pmErr.open
    /\ Len(pmErr.written) < MaxLines
    /\ \E line \in ErrLines : pmErr' = [pmErr EXCEPT !.written = Append(@, line)]
    /\ UNCHANGED <<pm, pmProcs, pmOut>>
    /\ UNCHANGED nonPmVars

\* the limits get_output is called with
Limits == (0 - 1)..MaxLimit

\* get_output(limit) is called
PmGetOutput ==
    /\ pm.pc = "idle"
    /\ \E limit \in Limits :
          IF pm.process = None
          THEN pm' = [pm EXCEPT !.op = "get_output", !.outcome = "ok", !.read = <<>>,
                                !.asked = limit, !.limit = limit, !.ready = <<>>,
                                !.signals = <<>>, !.in_grace = FALSE]
          ELSE pm' = [pm EXCEPT !.pc = "get_output", !.op = "get_output",
                                !.outcome = "", !.read = <<>>,
                                !.asked = limit, !.limit = limit, !.ready = <<>>,
                                !.before = pmOut.consumed + pmErr.consumed,
                                !.signals = <<>>, !.in_grace = FALSE]
    /\ UNCHANGED <<pmProcs, pmOut, pmErr>>
    /\ UNCHANGED nonPmVars

\* select.select(streams, [], [], 0): the streams that are readable, in the
\* order of `streams`
ReadyStreams ==
    (IF SelectReady(pmOut) THEN <<"stdout">> ELSE <<>>)
        \o (IF SelectReady(pmErr) THEN <<"stderr">> ELSE <<>>)

\* get_output: `while limit > 0`, select, `if not ready: break`; the list is
\* returned when the loop ends
PmGetOutputSelect ==
    /\ pm.pc = "get_output"
    /\ pm.ready = <<>>
    /\ IF pm.limit > 0 /\ ReadyStreams # <<>>
       THEN pm' = [pm EXCEPT !.ready = ReadyStreams]
       ELSE pm' = [pm EXCEPT !.pc = "idle", !.outcome = "ok"]
    /\ UNCHANGED <<pmProcs, pmOut, pmErr>>
    /\ UNCHANGED nonPmVars

\* mutant: the inner loop goes on when the limit is used up
RestWithoutBreak(limit, ready) == Tail(ready)

\* get_output: `if limit <= 0: break` leaves the streams that are still in
\* `ready` unread
RestAfterLine(limit, ready) == IF limit <= 0 THEN <<>> ELSE Tail(ready)

\* get_output: `for stream in ready`, one readline() and what follows it
PmGetOutputRead ==
    /\ pm.pc = "get_output"
    /\ pm.ready # <<>>
    /\ \E pipe \in {IF Head(pm.ready) = "stdout" THEN pmOut ELSE pmErr} :
          /\ ReadlineReturns(pipe)
          /\ \E raw \in {Readline(pipe)} :
                pm' = IF raw # <<>>
                      THEN [pm EXCEPT !.read = Append(@, Rstrip(raw)),
                                      !.limit = @ - 1,
                                      !.ready = RestAfterLine(pm.limit - 1, pm.ready)]
                      ELSE [pm EXCEPT !.ready = Tail(@)]
          /\ IF Head(pm.ready) = "stdout"
             THEN pmOut' = AfterReadline(pipe) /\ pmErr' = pmErr
             ELSE pmErr' = AfterReadline(pipe) /\ pmOut' = pmOut
    /\ UNCHANGED pmProcs
    /\ UNCHANGED nonPmVars

\* is_running
IsRunning == pm.process # None /\ pmProcs[pm.process] = "alive"

\* mutant: SIGKILL follows SIGTERM whatever the child does
ShutdownSignalsAlwaysKill(alive, in_grace) ==
    IF ~alive THEN <<>> ELSE <<"SIGTERM", "SIGKILL">>

\* mutant: terminate() signals a child that has exited
ShutdownSignalsNoPoll(alive, in_grace) ==
    IF alive /\ ~in_grace THEN <<"SIGTERM", "SIGKILL">> ELSE <<"SIGTERM">>

\* shutdown: the signals sent by terminate(), wait(timeout) and, after
\* TimeoutExpired, kill(); send_signal() sends nothing to a child that has
\* exited
ShutdownSignals(alive, in_grace) ==
    IF ~alive THEN <<>>
    ELSE IF in_grace THEN <<"SIGTERM">>
    ELSE <<"SIGTERM", "SIGKILL">>

\* shutdown(); the child exits within PROCESS_TERMINATION_TIMEOUT or not
PmShutdown ==
    /\ pm.pc = "idle"
    /\ IF pm.process = None
       THEN /\ pm' = [pm EXCEPT !.op = "shutdown", !.outcome = "ok",
                                !.signals = <<>>, !.in_grace = FALSE]
            /\ UNCHANGED <<pmProcs, pmOut, pmErr>>
       ELSE /\ pmProcs' = [pmProcs EXCEPT ![pm.process] = AfterShutdown(@)]
            /\ pmOut' = NewPipe
            /\ pmErr' = NewPipe
            /\ \E in_grace \in IF IsRunning THEN BOOLEAN ELSE {TRUE} :
                  pm' = [pm EXCEPT !.op = "shutdown", !.outcome = "ok",
                                   !.process = None, !.base_url = <<>>,
                                   !.started = FALSE,
                                   !.signals = ShutdownSignals(IsRunning, in_grace),
                                   !.in_grace = in_grace]
    /\ UNCHANGED nonPmVars

(***************************************************************************)
(* OpencodeServer._wait_for_ready (server.py), with its clock              *)
(*                                                                         *)
(* Time is counted in ticks of one sleep; `elapsed` is time.time() -       *)
(* start_time.  A health call is client.app.get(): it takes 0 to           *)
(* MaxCallTime ticks and returns an object, returns nothing, or raises.    *)
(***************************************************************************)
MaxCallTime == 2       \* the longest a health call takes, in ticks
MaxCalls == 3          \* health calls recorded in one run

HealthResults == {"app_info", "none", "raises"}

\* before __enter__ reaches _wait_for_ready
NewProbe ==
    [pc |-> "idle", elapsed |-> 0, base_url |-> FALSE, began |-> 0,
     calls |-> <<>>, outcome |-> ""]

\* _wait_for_ready is entered: start_time = time.time()
RdStart ==
    /\ probe.pc \in {"idle", "done"}
    /\ probe' = [NewProbe EXCEPT !.pc = "url_wait"]
    /\ UNCHANGED <<sel, sess, track, poll, chosen, called>>
    /\ UNCHANGED objectVars

\* the reader thread finds the URL line and sets base_url
RdReadOutput ==
    /\ probe.pc = "url_wait"
    /\ ~probe.base_url
    /\ probe' = [probe EXCEPT !.base_url = TRUE]
    /\ UNCHANGED <<sel, sess, track, poll, chosen, called>>
    /\ UNCHANGED objectVars

\* one turn of `while not self.base_url`, or its end
RdUrlPoll ==
    /\ probe.pc = "url_wait"
    /\ probe' = IF probe.base_url
                THEN [probe EXCEPT !.pc = "health"]
                ELSE IF probe.elapsed > StartupTimeout
                THEN [probe EXCEPT !.pc = "done", !.outcome = "TimeoutError"]
                ELSE [probe EXCEPT !.elapsed = @ + 1]
    /\ UNCHANGED <<sel, sess, track, poll, chosen, called>>
    /\ UNCHANGED objectVars

\* `while time.time() - start_time < self.startup_timeout` is left
DeadlinePassed(elapsed) == ~(elapsed < StartupTimeout)

\* the test of the health loop: a call is begun, or TimeoutError is raised
RdHealthTest ==
    /\ probe.pc = "health"
    /\ DeadlinePassed(probe.elapsed) \/ Len(probe.calls) < MaxCalls
    /\ probe' = IF DeadlinePassed(probe.elapsed)
                THEN [probe EXCEPT !.pc = "done", !.outcome = "TimeoutError"]
                ELSE [probe EXCEPT !.pc = "call", !.began = probe.elapsed]
    /\ UNCHANGED <<sel, sess, track, poll, chosen, called>>
    /\ UNCHANGED objectVars

\* mutant: an exception of the health call leaves _wait_for_ready
AfterRaisesAbort(r) == [r EXCEPT !.pc = "done", !.outcome = "Exception"]

\* `except Exception`: the failure is logged, time.sleep(0.5), next turn
AfterRaises(r) == [r EXCEPT !.pc = "health", !.elapsed = @ + 1]

\* the health call returns or raises, after `took` ticks
RdHealthCall ==
    /\ probe.pc = "call"
    /\ \E took \in 0..MaxCallTime, result \in HealthResults :
          \E r \in {[probe EXCEPT !.elapsed = @ + took,
                                  !.calls = Append(@, [result |-> result,
                                                       began |-> probe.began,
                                                       ended |-> probe.elapsed + took])]} :
             probe' = CASE result = "app_info" -> [r EXCEPT !.pc = "done", !.outcome = "ready"]
                        [] result = "none" -> [r EXCEPT !.pc = "health"]
                        [] result = "raises" -> AfterRaises(r)
    /\ UNCHANGED <<sel, sess, track, poll, chosen, called>>
    /\ UNCHANGED objectVars

(***************************************************************************)
(* ModelSelector (models.py)                                               *)
(*                                                                         *)
(* A file is what open() and json.load() make of it: missing, unreadable,  *)
(* not JSON, a JSON value that is not an object, or an object.  Of the     *)
(* config object only the "model" field counts; of the auth object only    *)
(* its keys, in the order of the file.  A model string is a sequence of    *)
(* tokens, "/" being one of them.                                          *)
(***************************************************************************)
MaxKeys == 2           \* providers in one auth file

Providers == {"anthropic", "openai", "google", "groq", "mistral"}

\* CHEAP_MODELS, in the order of the dict
CheapOrder == <<"anthropic", "openai", "google">>
CheapModels ==
    [p \in {"anthropic", "openai", "google"} |->
        CASE p = "anthropic" -> <<"claude-3-5-haiku-20241022">>
          [] p = "openai" -> <<"gpt-4o-mini">>
          [] p = "google" -> <<"gemini-1.5-flash">>]

\* the default of CHEAP_MODELS.get(provider, ...)
FallbackModel == <<"claude-3-5-haiku-20241022">>

\* the values of the "model" field: no field, null, a string, or a value
\* that is true and no string ("number": a number, an object)
ModelStrings ==
    {<<>>,
     <<"openai", "/", "gpt-4o-mini">>,
     <<"groq", "/", "llama">>,
     <<"gpt-4o-mini">>,
     <<"openai", "/">>,
     <<"/">>,
     <<"a", "/", "b", "/", "c">>}

ModelFields ==
    {[type |-> "absent", str |-> <<>>], [type |-> "null", str |-> <<>>],
     [type |-> "number", str |-> <<>>]}
    \cup {[type |-> "string", str |-> s] : s \in ModelStrings}

ConfigFiles ==
    {[kind |-> k, model |-> [type |-> "absent", str |-> <<>>]] :
        k \in {"missing", "unreadable", "malformed", "not_object"}}
    \cup {[kind |-> "object", model |-> f] : f \in ModelFields}

\* the key sequences of an auth object: no provider twice
KeySeqs ==
    UNION {{ks \in [1..n -> Providers] : \A a, b \in 1..n : ks[a] = ks[b] => a = b} :
              n \in 0..MaxKeys}

AuthFiles ==
    {[kind |-> k, keys |-> <<>>] : k \in {"missing", "unreadable", "malformed", "not_object"}}
    \cup {[kind |-> "object", keys |-> ks] : ks \in KeySeqs}

Range(f) == {f[x] : x \in DOMAIN f}

\* str.split("/"): the parts between the "/" tokens
RECURSIVE Split(_)
Split(s) ==
    IF \A k \in 1..Len(s) : s[k] # "/"
    THEN <<s>>
    ELSE LET k == CHOOSE j \in 1..Len(s) :
                     s[j] = "/" /\ \A h \in 1..(j - 1) : s[h] # "/"
         IN <<SubSeq(s, 1, k - 1)>> \o Split(SubSeq(s, k + 1, Len(s)))

Pair(provider, model) == [kind |-> "pair", provider |-> provider, model |-> model]
Raised(exception) == [kind |-> exception, provider |-> <<>>, model |-> <<>>]
NoResult == Raised("")

\* the first part of get_default_model: the pair of the config file, an
\* exception that leaves the function, or NoResult when the auth file is
\* to be looked at
FromConfig(config) ==
    CASE config.kind \in {"missing", "malformed"} -> NoResult
      [] config.kind = "unreadable" -> Raised("PermissionError")
      [] config.kind = "not_object" -> Raised("AttributeError")
      [] config.model.type \in {"absent", "null"} -> NoResult
      [] config.model.type = "number" -> Raised("AttributeError")
      [] config.model.str = <<>> -> NoResult
      [] Len(Split(config.model.str)) = 2 ->
            Pair(Split(config.model.str)[1], Split(config.model.str)[2])
      [] OTHER -> NoResult

\* the second part: the auth file; `first` is next(iter(auth_providers))
FromAuth(auth, first) ==
    CASE auth.kind \in {"missing", "malformed"} ->
            Raised("ConfigurationError: Failed to load auth file")
      [] auth.kind = "unreadable" -> Raised("PermissionError")
      [] auth.kind = "not_object" -> Raised("AttributeError")
      [] \E n \in 1..3 : CheapOrder[n] \in Range(auth.keys) ->
            LET n == CHOOSE j \in 1..3 :
                        /\ CheapOrder[j] \in Range(auth.keys)
                        /\ \A h \in 1..(j - 1) : CheapOrder[h] \notin Range(auth.keys)
            IN Pair(<<CheapOrder[n]>>, CheapModels[CheapOrder[n]])
      [] auth.keys # <<>> ->
            Pair(<<first>>, IF first \in DOMAIN CheapModels
                            THEN CheapModels[first] ELSE FallbackModel)
      [] OTHER -> Raised("ConfigurationError: No valid authentication providers found")

\* mutant: the auth file is loaded before the config file is looked at
GetDefaultModelAuthFirst(config, auth, first) ==
    IF FromAuth(auth, first).kind # "pair" THEN FromAuth(auth, first)
    ELSE IF FromConfig(config) # NoResult THEN FromConfig(config)
    ELSE FromAuth(auth, first)

\* get_default_model()
GetDefaultModel(config, auth, first) ==
    IF FromConfig(config) # NoResult THEN FromConfig(config)
    ELSE FromAuth(auth, first)

\* a ModelSelector before its files are known
NewSelector ==
    [pc |-> "new", config |-> [kind |-> "missing", model |-> [type |-> "absent", str |-> <<>>]],
     auth |-> [kind |-> "missing", keys |-> <<>>], result |-> NoResult]

\* the elements next(iter(set)) can give: any of the set
IterFirst(keys) == IF keys = <<>> THEN {"none"} ELSE Range(keys)

\* get_default_model() is called
SelGetDefaultModel ==
    /\ sel.pc = "idle"
    /\ \E first \in IterFirst(sel.auth.keys) :
          sel' = [sel EXCEPT !.pc = "done",
                             !.result = GetDefaultModel(sel.config, sel.auth, first)]
    /\ UNCHANGED <<probe, sess, track, poll, chosen, called>>
    /\ UNCHANGED objectVars

\* the auth file is rewritten (a provider is logged in or out) before the
\* selector is asked again
SelRewriteAuth ==
    /\ sel.pc \in {"idle", "done"}
    /\ \E auth \in AuthFiles :
          /\ auth # sel.auth
          /\ sel' = [sel EXCEPT !.pc = "idle", !.auth = auth, !.result = NoResult]
    /\ UNCHANGED <<probe, sess, track, poll, chosen, called>>
    /\ UNCHANGED objectVars

(***************************************************************************)
(* SessionManager (session_manager.py)                                     *)
(*                                                                         *)
(* The remote server keeps the sessions; every operation makes one call    *)
(* of the SDK client, which returns or raises.  A call that raises has     *)
(* changed nothing on the server.                                          *)
(***************************************************************************)
MaxSessions == 2       \* session ids the remote server hands out
MaxMessages == 1       \* chat turns in one session

SessionIds == 1..MaxSessions

\* a SessionManager and the remote server before any call
NewSessionManager ==
    [remote |-> {}, msgs |-> [id \in {} |-> 0],
     op |-> "", id |-> 0, failed |-> FALSE, outcome |-> "", result |-> {},
     listing |-> <<>>, aborts |-> <<>>]

\* what every operation of the SessionManager leaves alone
SmUnchanged ==
    /\ UNCHANGED <<probe, sel, track, poll, chosen, called>>
    /\ UNCHANGED objectVars

\* the operation has ended: what it was, whether its remote call raised,
\* and what the caller got ("return" or the exception, and the value)
SmDone(op, id, failed, outcome, result) ==
    [sess EXCEPT !.op = op, !.id = id, !.failed = failed,
                 !.outcome = outcome, !.result = result,
                 !.listing = <<>>, !.aborts = <<>>]

\* create_session(title)
SmCreateSession ==
    /\ \E failed \in BOOLEAN :
          IF failed
          THEN sess' = SmDone("create_session", 0, TRUE, "SessionError", {})
          ELSE /\ sess.remote # SessionIds
               /\ \E id \in {CHOOSE n \in SessionIds \ sess.remote :
                                \A k \in SessionIds \ sess.remote : n <= k} :
                     sess' = [SmDone("create_session", id, FALSE, "return", {id})
                                 EXCEPT !.remote = @ \cup {id},
                                        !.msgs = [n \in sess.remote \cup {id} |->
                                                    IF n = id THEN 0 ELSE sess.msgs[n]]]
    /\ SmUnchanged

\* list_sessions(): a failure of the call is logged and [] is returned
SmListSessions ==
    /\ \E failed \in BOOLEAN :
          sess' = IF failed
                  THEN SmDone("list_sessions", 0, TRUE, "return", {})
                  ELSE SmDone("list_sessions", 0, FALSE, "return", sess.remote)
    /\ SmUnchanged

\* get_session(session_id): the call is outside any try
SmGetSession ==
    /\ \E id \in SessionIds, failed \in BOOLEAN :
          sess' = IF failed
                  THEN SmDone("get_session", id, TRUE, "Exception", {})
                  ELSE IF id \in sess.remote
                  THEN SmDone("get_session", id, FALSE, "return", {id})
                  ELSE SmDone("get_session", id, FALSE, "SessionNotFoundError", {})
    /\ SmUnchanged

\* delete_session(session_id)
SmDeleteSession ==
    /\ \E id \in SessionIds, failed \in BOOLEAN :
          sess' = IF failed \/ id \notin sess.remote
                  THEN SmDone("delete_session", id, TRUE, "SessionError", {})
                  ELSE [SmDone("delete_session", id, FALSE, "return", {})
                           EXCEPT !.remote = @ \ {id},
                                  !.msgs = [n \in sess.remote \ {id} |-> sess.msgs[n]]]
    /\ SmUnchanged

\* abort_session(session_id)
SmAbortSession ==
    /\ \E id \in SessionIds, failed \in BOOLEAN :
          sess' = IF failed \/ id \notin sess.remote
                  THEN SmDone("abort_session", id, TRUE, "SessionError", {})
                  ELSE SmDone("abort_session", id, FALSE, "return", {})
    /\ SmUnchanged

\* the orders in which the server can list the sessions
Listings(ids) ==
    {l \in [1..Cardinality(ids) -> ids] : \A i, j \in DOMAIN l : l[i] = l[j] => i = j}

\* mutant: abort_session is called outside any try
RECURSIVE AbortEachUnguarded(_, _)
AbortEachUnguarded(sessions, fails) ==
    IF sessions = <<>> THEN [aborts |-> <<>>, outcome |-> "return"]
    ELSE IF Head(sessions) \in fails
         THEN [aborts |-> <<Head(sessions)>>, outcome |-> "SessionError"]
         ELSE [aborts |-> <<Head(sessions)>> \o AbortEachUnguarded(Tail(sessions), fails).aborts,
               outcome |-> AbortEachUnguarded(Tail(sessions), fails).outcome]

\* abort_all_sessions: the loop; abort_session is called for the session and
\* its SessionError is logged: the ids abort_session was called with, and
\* what the caller gets
RECURSIVE AbortEach(_, _)
AbortEach(sessions, fails) ==
    IF sessions = <<>> THEN [aborts |-> <<>>, outcome |-> "return"]
    ELSE [aborts |-> <<Head(sessions)>> \o AbortEach(Tail(sessions), fails).aborts,
          outcome |-> AbortEach(Tail(sessions), fails).outcome]

\* abort_all_sessions(): `failed` is the list call raising, `result` the
\* sessions whose abort call raised
SmAbortAllSessions ==
    /\ \E failed \in BOOLEAN, listing \in Listings(sess.remote),
          fails \in SUBSET sess.remote :
          LET sessions == IF failed THEN <<>> ELSE listing
              loop == AbortEach(sessions, fails)
          IN sess' = [SmDone("abort_all_sessions", 0, failed, loop.outcome,
                             fails \cap Range(sessions))
                         EXCEPT !.listing = sessions, !.aborts = loop.aborts]
    /\ SmUnchanged

\* send_message(session_id, message): the model is selected, then the chat
\* call is made
SmSendMessage ==
    /\ \E id \in SessionIds, failed \in BOOLEAN, selected \in BOOLEAN :
          IF ~selected
          THEN sess' = SmDone("send_message", id, FALSE, "ConfigurationError", {})
          ELSE IF failed \/ id \notin sess.remote
          THEN sess' = SmDone("send_message", id, TRUE, "SessionError", {})
          ELSE /\ sess.msgs[id] < MaxMessages
               /\ sess' = [SmDone("send_message", id, FALSE, "return", {id})
                              EXCEPT !.msgs[id] = @ + 1]
    /\ SmUnchanged

\* get_messages(session_id)
SmGetMessages ==
    /\ \E id \in SessionIds, failed \in BOOLEAN :
          sess' = IF failed \/ id \notin sess.remote
                  THEN SmDone("get_messages", id, TRUE, "SessionError", {})
                  ELSE SmDone("get_messages", id, FALSE, "return", 1..sess.msgs[id])
    /\ SmUnchanged

(***************************************************************************)
(* Session (session.py)                                                    *)
(*                                                                         *)
(* The remote server keeps the messages of the session, oldest first; a    *)
(* message is its info.id, and the ids are 1, 2, ... in the order the      *)
(* messages were appended.  None is 0.                                     *)
(***************************************************************************)
MaxTrack == 5          \* messages in the tracked session

NoId == 0

\* a Session as __init__ leaves it, on a session with no messages; `seen` is
\* history: how many messages the remote list had at the last read that
\* returned
NewSession ==
    [remote |-> <<>>, last_read_id |-> NoId, op |-> "", outcome |-> "",
     result |-> <<>>, seen |-> 0]

\* messages[-1].info.id when there are messages, else the cursor as it was
CursorAfter(last_read_id, messages) ==
    IF messages # <<>> THEN messages[Len(messages)] ELSE last_read_id

\* messages[-limit:] when limit is given and smaller than the list
LastOf(messages, limit) ==
    IF limit # 0 /\ Len(messages) > limit
    THEN SubSeq(messages, Len(messages) - limit + 1, Len(messages))
    ELSE messages

\* the index (from 1) of the first message with the id, 0 when there is none
LastIdx(all_messages, id) ==
    IF \E i \in 1..Len(all_messages) : all_messages[i] = id
    THEN CHOOSE i \in 1..Len(all_messages) :
            /\ all_messages[i] = id
            /\ \A j \in 1..(i - 1) : all_messages[j] # id
    ELSE 0

\* mutant: the slice starts at the last read message
NewMessagesFromLastRead(all_messages, last_read_id) ==
    IF last_read_id = NoId \/ LastIdx(all_messages, last_read_id) = 0
    THEN all_messages
    ELSE SubSeq(all_messages, LastIdx(all_messages, last_read_id), Len(all_messages))

\* get_new_messages: everything on the first read or when the cursor is not
\* in the list, else all_messages[last_idx + 1:]
NewMessages(all_messages, last_read_id) ==
    IF last_read_id = NoId \/ LastIdx(all_messages, last_read_id) = 0
    THEN all_messages
    ELSE SubSeq(all_messages, LastIdx(all_messages, last_read_id) + 1, Len(all_messages))

\* the remote session gets one more message
TrAppend ==
    /\ Len(track.remote) < MaxTrack
    /\ track' = [track EXCEPT !.remote = Append(@, Len(@) + 1)]
    /\ UNCHANGED <<probe, sel, sess, poll, chosen, called>>
    /\ UNCHANGED objectVars

\* Session.get_messages(limit); the call of the server raises or returns
TrGetMessages ==
    /\ \E limit \in 0..MaxTrack, failed \in BOOLEAN :
          track' = IF failed
                   THEN [track EXCEPT !.op = "get_messages", !.outcome = "raise",
                                      !.result = <<>>]
                   ELSE [track EXCEPT !.op = "get_messages", !.outcome = "return",
                            !.last_read_id = CursorAfter(@, track.remote),
                            !.result = LastOf(track.remote, limit),
                            !.seen = Len(track.remote)]
    /\ UNCHANGED <<probe, sel, sess, poll, chosen, called>>
    /\ UNCHANGED objectVars

\* Session.get_new_messages()
TrGetNewMessages ==
    /\ \E failed \in BOOLEAN :
          track' = IF failed
                   THEN [track EXCEPT !.op = "get_new_messages", !.outcome = "raise",
                                      !.result = <<>>]
                   ELSE [track EXCEPT !.op = "get_new_messages", !.outcome = "return",
                            !.last_read_id =
                                CursorAfter(@, NewMessages(track.remote, track.last_read_id)),
                            !.result = NewMessages(track.remote, track.last_read_id),
                            !.seen = Len(track.remote)]
    /\ UNCHANGED <<probe, sel, sess, poll, chosen, called>>
    /\ UNCHANGED objectVars

(***************************************************************************)
(* OpencodeClient.get_messages_since (client.py)                           *)
(*                                                                         *)
(* A remote message is its info.id (1, 2, ... in the order of the list)    *)
(* and whether its parts hold any text.  The caller keeps the latest id    *)
(* the previous call returned and passes it as last_id; None is 0.         *)
(***************************************************************************)
MaxPolled == 3         \* messages in the polled session

\* the caller before its first call, on a session with no messages;
\* `returned` is history: the ids the calls so far have returned
NewPoll ==
    [remote |-> <<>>, last_id |-> NoId, outcome |-> "", messages |-> <<>>,
     returned |-> {}]

\* the loop over msg_list: the messages after last_id (all of them when
\* last_id is None) that have text
RECURSIVE MessagesSince(_, _, _)
MessagesSince(msg_list, last_id, found_last_id) ==
    IF msg_list = <<>> THEN <<>>
    ELSE IF ~found_last_id
         THEN MessagesSince(Tail(msg_list), last_id, Head(msg_list).id = last_id)
         ELSE IF Head(msg_list).text
              THEN <<Head(msg_list).id>> \o MessagesSince(Tail(msg_list), last_id, TRUE)
              ELSE MessagesSince(Tail(msg_list), last_id, TRUE)

\* latest_id: the id of the last message put in the list, None when none was
LatestId(messages) ==
    IF messages = <<>> THEN NoId ELSE messages[Len(messages)]

\* the remote session gets one more message, with or without text
PollAppend ==
    /\ Len(poll.remote) < MaxPolled
    /\ \E text \in BOOLEAN :
          poll' = [poll EXCEPT !.remote = Append(@, [id |-> Len(@) + 1, text |-> text])]
    /\ UNCHANGED <<probe, sel, sess, track, chosen, called>>
    /\ UNCHANGED objectVars

\* one turn of the polling loop: messages, last_id =
\* client.get_messages_since(session_id, last_id); an exception of the SDK
\* call is raised again and leaves the caller's last_id as it was
PollGetMessagesSince ==
    /\ \E failed \in BOOLEAN :
          poll' = IF failed
                  THEN [poll EXCEPT !.outcome = "raise", !.messages = <<>>]
                  ELSE LET messages == MessagesSince(poll.remote, poll.last_id,
                                                     poll.last_id = NoId)
                       IN [poll EXCEPT !.outcome = "return",
                                       !.messages = messages,
                                       !.last_id = LatestId(messages),
                                       !.returned = @ \cup Range(messages)]
    /\ UNCHANGED <<probe, sel, sess, track, chosen, called>>
    /\ UNCHANGED objectVars

(***************************************************************************)
(* OpencodeServer._get_default_model (server.py), on the files of the      *)
(* ModelSelector                                                           *)
(***************************************************************************)

\* the first part: json.load(f).get("model", "").split("/") with two parts
ServerFromConfig(config) ==
    CASE config.kind \in {"missing", "malformed"} -> NoResult
      [] config.kind = "unreadable" -> Raised("PermissionError")
      [] config.kind = "not_object" -> Raised("AttributeError")
      [] config.model.type \in {"null", "number"} -> Raised("AttributeError")
      [] Len(Split(config.model.str)) = 2 ->
            Pair(Split(config.model.str)[1], Split(config.model.str)[2])
      [] OTHER -> NoResult

\* the second part: the auth file is opened outside any try; `first` is
\* next(iter(auth), "anthropic")
ServerFromAuth(auth, first) ==
    CASE auth.kind = "missing" -> Raised("FileNotFoundError")
      [] auth.kind = "malformed" -> Raised("JSONDecodeError")
      [] auth.kind = "unreadable" -> Raised("PermissionError")
      [] auth.kind = "not_object" -> Raised("AttributeError")
      [] \E n \in 1..3 : CheapOrder[n] \in Range(auth.keys) ->
            LET n == CHOOSE j \in 1..3 :
                        /\ CheapOrder[j] \in Range(auth.keys)
                        /\ \A h \in 1..(j - 1) : CheapOrder[h] \notin Range(auth.keys)
            IN Pair(<<CheapOrder[n]>>, CheapModels[CheapOrder[n]])
      [] OTHER -> Pair(<<IF auth.keys = <<>> THEN "anthropic" ELSE first>>, FallbackModel)

\* _get_default_model()
ServerGetDefaultModel(config, auth, first) ==
    IF ServerFromConfig(config) # NoResult THEN ServerFromConfig(config)
    ELSE ServerFromAuth(auth, first)

\* one process calls ModelSelector.get_default_model() and
\* OpencodeServer._get_default_model() on the same two files; both functions
\* build set(json.load(f).keys()) alike, so next(iter(...)) gives both the
\* same element
BothGetDefaultModel ==
    /\ sel.pc = "idle"
    /\ \E first \in IterFirst(sel.auth.keys) :
          /\ sel' = [sel EXCEPT !.pc = "done",
                                !.result = GetDefaultModel(sel.config, sel.auth, first)]
          /\ chosen' = ServerGetDefaultModel(sel.config, sel.auth, first)
    /\ UNCHANGED <<probe, sess, track, poll, called>>
    /\ UNCHANGED objectVars

(***************************************************************************)
(* The session operations of the OpencodeServer (server.py)                *)
(***************************************************************************)
SessionOperations ==
    {"create_session", "list_sessions", "get_session", "delete_session",
     "abort_session", "send_message", "get_messages"}

\* no session operation has been called on an OpencodeServer yet
NoCall == [server |-> 0, op |-> "", outcome |-> ""]

\* what the SDK client makes of a request to the URL it was created with:
\* an answer or an error status while the child listens there, else no
\* connection
ClientCall(url) ==
    IF procs[url.port].state = "alive" THEN {"return", "APIStatusError"}
    ELSE {"APIConnectionError"}

\* a session operation is called on server i between two other calls:
\* `if not self._client: raise RuntimeError("Server not started. ...")`,
\* then the request through the client
SessionOp(i) ==
    /\ server[i].pc = "idle"
    /\ \E op \in SessionOperations :
       \E outcome \in IF server[i].client = NoUrl THEN {"RuntimeError: Server not started"}
                      ELSE ClientCall(server[i].client) :
          called' = [server |-> i, op |-> op, outcome |-> outcome]
    /\ UNCHANGED <<probe, sel, sess, track, poll, chosen>>
    /\ UNCHANGED objectVars


Init ==
    /\ ambient \in AmbientEnvs
    /\ fs = InitialTree
    /\ server = [i \in Servers |-> NewServer]
    /\ procs = [p \in 1..MaxProcs |-> NoProc]
    /\ rmtreed = FALSE
    /\ iso = NewIsolationManager
    /\ envLog = <<>>
    /\ pm = NewProcessManager
    /\ pmProcs = [p \in 1..MaxProcs |-> "unused"]
    /\ pmOut = NewPipe
    /\ pmErr = NewPipe
    /\ probe = NewProbe
    /\ sel = NewSelector
    /\ sess = NewSessionManager
    /\ track = NewSession
    /\ poll = NewPoll
    /\ chosen = NoResult
    /\ called = NoCall

ServerStep(i) ==
    \/ Construct(i)
    \/ Enter(i)
    \/ Mkdir(i)
    \/ Copy(i)
    \/ Verify(i)
    \/ StartServer(i)
    \/ WaitUrlFound(i)
    \/ WaitUrlTimeout(i)
    \/ HealthOk(i)
    \/ HealthTimeout(i)
    \/ ExitShutdown(i)
    \/ ExitCleanup(i)

ChildStep ==
    \E p \in 1..MaxProcs : ReadOutput(p) \/ ChildExit(p)

\* one OpencodeServer
Next == ServerStep(1) \/ ChildStep

Spec == Init /\ [][Next]_vars

\* two OpencodeServer objects, used from two threads; their children stay
\* silent and alive until they are shut down
InitTwo ==
    /\ ambient \in {a \in AmbientEnvs : DOMAIN a \subseteq {"XDG_CONFIG_HOME"}}
    /\ fs = InitialTree
    /\ server = [i \in Servers |-> NewServer]
    /\ procs = [p \in 1..MaxProcs |-> NoProc]
    /\ rmtreed = FALSE
    /\ iso = NewIsolationManager
    /\ envLog = <<>>
    /\ pm = NewProcessManager
    /\ pmProcs = [p \in 1..MaxProcs |-> "unused"]
    /\ pmOut = NewPipe
    /\ pmErr = NewPipe
    /\ probe = NewProbe
    /\ sel = NewSelector
    /\ sess = NewSessionManager
    /\ track = NewSession
    /\ poll = NewPoll
    /\ chosen = NoResult
    /\ called = NoCall

NextTwo ==
    \E i \in Servers :
        \/ Construct(i)
        \/ Enter(i)
        \/ Mkdir(i)
        \/ Copy(i)
        \/ Verify(i)
        \/ StartServer(i)
        \/ WaitUrlTimeout(i)
        \/ ExitShutdown(i)
        \/ ExitCleanup(i)

SpecTwo == InitTwo /\ [][NextTwo]_vars

NextIso ==
    \/ IsoConstruct
    \/ IsoSetup
    \/ IsoMkdir
    \/ IsoCopy
    \/ IsoVerify
    \/ IsoGetEnvironment
    \/ IsoCleanup

\* the IsolationManager alone; of os.environ only XDG_CONFIG_HOME, which the
\* verification reads, varies
InitIso ==
    /\ ambient \in {a \in AmbientEnvs : DOMAIN a \subseteq {"XDG_CONFIG_HOME"}}
    /\ fs = InitialTree
    /\ server = [i \in Servers |-> NewServer]
    /\ procs = [p \in 1..MaxProcs |-> NoProc]
    /\ rmtreed = FALSE
    /\ iso = NewIsolationManager
    /\ envLog = <<>>
    /\ pm = NewProcessManager
    /\ pmProcs = [p \in 1..MaxProcs |-> "unused"]
    /\ pmOut = NewPipe
    /\ pmErr = NewPipe
    /\ probe = NewProbe
    /\ sel = NewSelector
    /\ sess = NewSessionManager
    /\ track = NewSession
    /\ poll = NewPoll
    /\ chosen = NoResult
    /\ called = NoCall

SpecIso == InitIso /\ [][NextIso]_vars

\* get_environment() under a changing os.environ: the sandbox is set up at the
\* start
InitEnv ==
    /\ ambient \in AmbientEnvs
    /\ \E t \in {d \in TargetDirs : ~IsoVerifyRaises(ambient, Prefixes(d), d, <<>>)} :
          /\ iso = [NewIsolationManager EXCEPT
                       !.pc = "idle", !.target_dir = t, !.setup_ok = TRUE, !.nth = 1,
                       !.xdg_dirs = IsoXdgDirs(t),
                       !.isolated_dirs = IsoIsolatedDirs(t)]
          /\ fs = InitialTree
                    \cup UNION {Prefixes(MergeDirs(IsoXdgDirs(t), IsoIsolatedDirs(t))[n]) :
                                   n \in DOMAIN MergeDirs(IsoXdgDirs(t), IsoIsolatedDirs(t))}
                    \cup Prefixes(AuthDest(IsoXdgDirs(t)))
                    \cup {OpencodeDest(t), OpencodeJsonDest(t)}
    /\ server = [i \in Servers |-> NewServer]
    /\ procs = [p \in 1..MaxProcs |-> NoProc]
    /\ rmtreed = FALSE
    /\ envLog = <<>>
    /\ pm = NewProcessManager
    /\ pmProcs = [p \in 1..MaxProcs |-> "unused"]
    /\ pmOut = NewPipe
    /\ pmErr = NewPipe
    /\ probe = NewProbe
    /\ sel = NewSelector
    /\ sess = NewSessionManager
    /\ track = NewSession
    /\ poll = NewPoll
    /\ chosen = NoResult
    /\ called = NoCall

NextEnv ==
    \/ IsoGetEnvironment
    \/ SetAmbient

SpecEnv == InitEnv /\ [][NextEnv]_vars

InitProc ==
    /\ ambient = <<>>
    /\ fs = InitialTree
    /\ server = [i \in Servers |-> NewServer]
    /\ procs = [p \in 1..MaxProcs |-> NoProc]
    /\ rmtreed = FALSE
    /\ iso = NewIsolationManager
    /\ envLog = <<>>
    /\ pm = NewProcessManager
    /\ pmProcs = [p \in 1..MaxProcs |-> "unused"]
    /\ pmOut = NewPipe
    /\ pmErr = NewPipe
    /\ probe = NewProbe
    /\ sel = NewSelector
    /\ sess = NewSessionManager
    /\ track = NewSession
    /\ poll = NewPoll
    /\ chosen = NoResult
    /\ called = NoCall

NextProc ==
    \/ PmConstruct
    \/ PmStart
    \/ PmChildWrite
    \/ PmChildWritePartial
    \/ PmChildWriteNewline
    \/ PmChildCloseStdout
    \/ PmChildExit
    \/ PmWaitForUrl
    \/ PmWaitPoll
    \/ PmWaitDeadline
    \/ PmWaitRaise
    \/ PmShutdown

SpecProc == InitProc /\ [][NextProc]_vars

\* wait_for_url runs on: the thread that has called it gets its turns, and
\* nothing is assumed of the child
SpecProcLive ==
    /\ SpecProc
    /\ WF_vars(PmWaitPoll)
    /\ WF_vars(PmWaitDeadline)
    /\ WF_vars(PmWaitRaise)

\* get_output on a ProcessManager whose child has been started
InitOut ==
    /\ ambient = <<>>
    /\ fs = InitialTree
    /\ server = [i \in Servers |-> NewServer]
    /\ procs = [p \in 1..MaxProcs |-> NoProc]
    /\ rmtreed = FALSE
    /\ iso = NewIsolationManager
    /\ envLog = <<>>
    /\ pm = [NewProcessManager EXCEPT !.pc = "idle", !.op = "start", !.outcome = "ok",
                                      !.process = 1, !.started = TRUE]
    /\ pmProcs = [p \in 1..MaxProcs |-> IF p = 1 THEN "alive" ELSE "unused"]
    /\ pmOut = [NewPipe EXCEPT !.open = TRUE]
    /\ pmErr = [NewPipe EXCEPT !.open = TRUE]
    /\ probe = NewProbe
    /\ sel = NewSelector
    /\ sess = NewSessionManager
    /\ track = NewSession
    /\ poll = NewPoll
    /\ chosen = NoResult
    /\ called = NoCall

NextOut ==
    \/ PmChildWrite
    \/ PmChildWritePartial
    \/ PmChildWriteNewline
    \/ PmChildWriteErr
    \/ PmChildCloseStdout
    \/ PmChildExit
    \/ PmGetOutput
    \/ PmGetOutputSelect
    \/ PmGetOutputRead
    \/ PmShutdown

SpecOut == InitOut /\ [][NextOut]_vars

\* get_output runs on: the thread that has called it gets its turns
SpecOutLive ==
    /\ SpecOut
    /\ WF_vars(PmGetOutputSelect)
    /\ WF_vars(PmGetOutputRead)

\* _wait_for_ready, run after run
InitReady ==
    /\ ambient = [v \in {} |-> <<>>]
    /\ fs = InitialTree
    /\ server = [i \in Servers |-> NewServer]
    /\ procs = [p \in 1..MaxProcs |-> NoProc]
    /\ rmtreed = FALSE
    /\ iso = NewIsolationManager
    /\ envLog = <<>>
    /\ pm = NewProcessManager
    /\ pmProcs = [p \in 1..MaxProcs |-> "unused"]
    /\ pmOut = NewPipe
    /\ pmErr = NewPipe
    /\ probe = NewProbe
    /\ sel = NewSelector
    /\ sess = NewSessionManager
    /\ track = NewSession
    /\ poll = NewPoll
    /\ chosen = NoResult
    /\ called = NoCall

NextReady ==
    \/ RdStart
    \/ RdReadOutput
    \/ RdUrlPoll
    \/ RdHealthTest
    \/ RdHealthCall

SpecReady == InitReady /\ [][NextReady]_vars

\* one OpencodeServer, constructed with any kind of opencode_binary
InitBinary ==
    /\ ambient = [v \in {} |-> <<>>]
    /\ fs = InitialTree
    /\ server = [i \in Servers |-> NewServer]
    /\ procs = [p \in 1..MaxProcs |-> NoProc]
    /\ rmtreed = FALSE
    /\ iso = NewIsolationManager
    /\ envLog = <<>>
    /\ pm = NewProcessManager
    /\ pmProcs = [p \in 1..MaxProcs |-> "unused"]
    /\ pmOut = NewPipe
    /\ pmErr = NewPipe
    /\ probe = NewProbe
    /\ sel = NewSelector
    /\ sess = NewSessionManager
    /\ track = NewSession
    /\ poll = NewPoll
    /\ chosen = NoResult
    /\ called = NoCall

NextBinary ==
    \/ ConstructAnyBinary(1)
    \/ Enter(1)
    \/ Mkdir(1)
    \/ Copy(1)
    \/ Verify(1)
    \/ StartServer(1)
    \/ WaitUrlTimeout(1)
    \/ ExitShutdown(1)
    \/ ExitCleanup(1)
    \/ PmConstruct
    \/ PmStart

SpecBinary == InitBinary /\ [][NextBinary]_vars

\* a ModelSelector on any config file, the auth file not yet written
InitSel ==
    /\ ambient = [v \in {} |-> <<>>]
    /\ fs = InitialTree
    /\ server = [i \in Servers |-> NewServer]
    /\ procs = [p \in 1..MaxProcs |-> NoProc]
    /\ rmtreed = FALSE
    /\ iso = NewIsolationManager
    /\ envLog = <<>>
    /\ pm = NewProcessManager
    /\ pmProcs = [p \in 1..MaxProcs |-> "unused"]
    /\ pmOut = NewPipe
    /\ pmErr = NewPipe
    /\ probe = NewProbe
    /\ \E config \in ConfigFiles :
          sel = [NewSelector EXCEPT !.pc = "idle", !.config = config]
    /\ sess = NewSessionManager
    /\ track = NewSession
    /\ poll = NewPoll
    /\ chosen = NoResult
    /\ called = NoCall

NextSel == SelGetDefaultModel \/ SelRewriteAuth

SpecSel == InitSel /\ [][NextSel]_vars

\* a SessionManager used by one caller
InitSess ==
    /\ ambient = [v \in {} |-> <<>>]
    /\ fs = InitialTree
    /\ server = [i \in Servers |-> NewServer]
    /\ procs = [p \in 1..MaxProcs |-> NoProc]
    /\ rmtreed = FALSE
    /\ iso = NewIsolationManager
    /\ envLog = <<>>
    /\ pm = NewProcessManager
    /\ pmProcs = [p \in 1..MaxProcs |-> "unused"]
    /\ pmOut = NewPipe
    /\ pmErr = NewPipe
    /\ probe = NewProbe
    /\ sel = NewSelector
    /\ sess = NewSessionManager
    /\ track = NewSession
    /\ poll = NewPoll
    /\ chosen = NoResult
    /\ called = NoCall

NextSess ==
    \/ SmCreateSession
    \/ SmListSessions
    \/ SmGetSession
    \/ SmDeleteSession
    \/ SmAbortSession
    \/ SmAbortAllSessions
    \/ SmSendMessage
    \/ SmGetMessages

SpecSess == InitSess /\ [][NextSess]_vars

\* one Session object read by one caller while the remote session grows
InitTrack ==
    /\ ambient = [v \in {} |-> <<>>]
    /\ fs = InitialTree
    /\ server = [i \in Servers |-> NewServer]
    /\ procs = [p \in 1..MaxProcs |-> NoProc]
    /\ rmtreed = FALSE
    /\ iso = NewIsolationManager
    /\ envLog = <<>>
    /\ pm = NewProcessManager
    /\ pmProcs = [p \in 1..MaxProcs |-> "unused"]
    /\ pmOut = NewPipe
    /\ pmErr = NewPipe
    /\ probe = NewProbe
    /\ sel = NewSelector
    /\ sess = NewSessionManager
    /\ track = NewSession
    /\ poll = NewPoll
    /\ chosen = NoResult
    /\ called = NoCall

NextTrack == TrAppend \/ TrGetMessages \/ TrGetNewMessages

SpecTrack == InitTrack /\ [][NextTrack]_vars

\* a caller polling get_messages_since while the remote session grows
InitPoll == InitTrack

NextPoll == PollAppend \/ PollGetMessagesSince

SpecPoll == InitPoll /\ [][NextPoll]_vars

\* the two model selections called on the same config file and auth file
InitBoth ==
    /\ ambient = [v \in {} |-> <<>>]
    /\ fs = InitialTree
    /\ server = [i \in Servers |-> NewServer]
    /\ procs = [p \in 1..MaxProcs |-> NoProc]
    /\ rmtreed = FALSE
    /\ iso = NewIsolationManager
    /\ envLog = <<>>
    /\ pm = NewProcessManager
    /\ pmProcs = [p \in 1..MaxProcs |-> "unused"]
    /\ pmOut = NewPipe
    /\ pmErr = NewPipe
    /\ probe = NewProbe
    /\ \E config \in ConfigFiles, auth \in AuthFiles :
          sel = [NewSelector EXCEPT !.pc = "idle", !.config = config, !.auth = auth]
    /\ sess = NewSessionManager
    /\ track = NewSession
    /\ poll = NewPoll
    /\ chosen = NoResult
    /\ called = NoCall

NextBoth == BothGetDefaultModel

SpecBoth == InitBoth /\ [][NextBoth]_vars

\* one OpencodeServer whose session operations are called at any time
InitOps == Init

NextOps == ServerStep(1) \/ ChildStep \/ SessionOp(1)

SpecOps == InitOps /\ [][NextOps]_vars

(***************************************************************************)
(* Claims about the OpencodeServer                                         *)
(***************************************************************************)
\* the real XDG directories: the variable when it is set, else the default
RealXdgDirs(env) ==
    {PathOf(EnvGet(env, "XDG_CONFIG_HOME", Str(RealHome \o <<".config">>))),
     PathOf(EnvGet(env, "XDG_DATA_HOME", Str(RealHome \o <<".local", "share">>))),
     PathOf(EnvGet(env, "XDG_CACHE_HOME", Str(RealHome \o <<".cache">>)))}

UnderRealHomeOrXdg(env, t) ==
    \E d \in {RealHome} \cup RealXdgDirs(env) : StrictDescendant(t, d)

SetupPassed(i) == server[i].pc \in {"start", "wait_url", "health"}

\* C1: a server whose target_dir lies below the real home directory or below
\* a real XDG config/data/cache directory never gets through its setup and
\* never spawns a child.
C1_HomeTargetNeverSpawns ==
    \A i \in Servers :
        (server[i].pc \notin {"new", "dead"}
            /\ UnderRealHomeOrXdg(ambient, server[i].target_dir))
        => /\ ~SetupPassed(i)
           /\ \A p \in 1..MaxProcs : procs[p].owner # i

\* C2: __enter__ reaches _start_server, and a child is spawned, only after
\* the isolation verification of the same __enter__ has passed.
C2_SpawnOnlyAfterVerification ==
    /\ \A i \in Servers : SetupPassed(i) => server[i].verified
    /\ \A p \in 1..MaxProcs : procs[p].state # "unused" => procs[p].verified

\* a child is running that was spawned after a passed verification, and (in
\* the same behaviour shape) __enter__ went through verify -> start
C2_Witness ==
    \E p \in 1..MaxProcs :
        /\ procs[p].state = "alive" /\ procs[p].verified
        /\ server[procs[p].owner].process = p

(***************************************************************************)
(* Claims about the sandbox and the child's environment                    *)
(***************************************************************************)
\* the variables of the child that hold a path of the sandbox
SandboxVars ==
    {"XDG_CONFIG_HOME", "XDG_DATA_HOME", "XDG_CACHE_HOME", "XDG_RUNTIME_DIR",
     "XDG_STATE_HOME", "HOME", "TMPDIR", "TEMP", "TMP"}

\* C3: every path in xdg_dirs and isolated_dirs of the IsolationManager is a
\* strict descendant of target_dir, and so is the path in each of the XDG_*,
\* HOME, TMPDIR, TEMP and TMP values that get_environment() returns
\* (XDG_STATE_HOME when it is there).
C3_DirsBelowTargetDir ==
    /\ \A n \in DOMAIN MergeDirs(iso.xdg_dirs, iso.isolated_dirs) :
          StrictDescendant(MergeDirs(iso.xdg_dirs, iso.isolated_dirs)[n], iso.target_dir)
    /\ \A k \in 1..Len(envLog) :
          /\ SandboxVars \ {"XDG_STATE_HOME"} \subseteq DOMAIN envLog[k].env
          /\ \A v \in SandboxVars \cap DOMAIN envLog[k].env :
                StrictDescendant(PathOf(envLog[k].env[v]), envLog[k].target_dir)

\* setup_environment has succeeded and get_environment() has returned
C3_Witness ==
    /\ iso.setup_ok
    /\ Len(envLog) > 0
    /\ envLog[Len(envLog)].target_dir = iso.target_dir

\* the keys get_environment() may return
AllowList ==
    {"XDG_CONFIG_HOME", "XDG_DATA_HOME", "XDG_CACHE_HOME", "XDG_RUNTIME_DIR",
     "HOME", "TMPDIR", "TEMP", "TMP", "PATH", "LANG", "LC_ALL", "TERM", "USER",
     "LOGNAME"}

\* two os.environ agree on one variable
SameVar(a, b, v) ==
    /\ (v \in DOMAIN a) = (v \in DOMAIN b)
    /\ v \in DOMAIN a => a[v] = b[v]

AgreeOnPassedThrough(a, b) ==
    \A v \in {"LANG", "LC_ALL", "TERM", "USER", "LOGNAME"} : SameVar(a, b, v)

\* C4: the environment for the child has exactly the allow-listed keys, and
\* two calls under ambient environments that agree on LANG, LC_ALL, TERM, USER
\* and LOGNAME return the same environment for the same sandbox.
C4_OnlyAllowListReachesChild ==
    \A j, k \in 1..Len(envLog) :
        /\ DOMAIN envLog[k].env = AllowList
        /\ (envLog[j].target_dir = envLog[k].target_dir
               /\ AgreeOnPassedThrough(envLog[j].environ, envLog[k].environ))
           => envLog[j].env = envLog[k].env

\* two calls under different ambient environments that agree on the five
\* variables, one of them with TEST_LEAK_VAR set
C4_Witness ==
    /\ Len(envLog) = 2
    /\ envLog[1].environ # envLog[2].environ
    /\ AgreeOnPassedThrough(envLog[1].environ, envLog[2].environ)
    /\ "TEST_LEAK_VAR" \in DOMAIN envLog[2].environ

\* C5: no variable given to a child, other than USER and LOGNAME, has a value
\* that contains the real home directory path.
C5_NoRealHomeInChildEnv ==
    \A p \in 1..MaxProcs :
        procs[p].state # "unused" =>
            \A k \in (DOMAIN procs[p].env) \ {"USER", "LOGNAME"} :
                ~Contains(procs[p].env[k], Str(RealHome))

\* the children of server i that are alive
AliveChildren(i) ==
    {p \in 1..MaxProcs : procs[p].owner = i /\ procs[p].state = "alive"}

\* C6: at most one child started by a server is alive, whatever sequence of
\* __enter__ and __exit__ calls the server has seen.
C6_AtMostOneChildAlive ==
    \A i \in Servers : Cardinality(AliveChildren(i)) <= 1

\* a second child is running after the first was shut down
C6_Witness ==
    \E p, q \in 1..MaxProcs :
        /\ procs[p].owner = 1 /\ procs[p].state = "reaped"
        /\ procs[q].owner = 1 /\ procs[q].state = "alive"

\* the servers that have spawned a child
Spawners == {i \in Servers : \E p \in 1..MaxProcs : procs[p].owner = i}

\* C7: of two servers constructed on the same target_dir, at most one ever
\* spawns a child, under every interleaving of their __enter__ steps (no
\* __exit__ has removed the directory in between).
C7_OneSpawnerPerTargetDir ==
    (/\ server[1].pc \notin {"new", "dead"}
     /\ server[2].pc \notin {"new", "dead"}
     /\ server[1].target_dir = server[2].target_dir
     /\ ~rmtreed)
    => Cardinality(Spawners) <= 1

\* both servers were constructed on one target_dir and have entered: one has
\* spawned its child, the other was stopped by the directory being there
C7_Witness ==
    /\ server[1].target_dir = server[2].target_dir
    /\ ~rmtreed
    /\ \E i, j \in Servers :
          /\ i \in Spawners
          /\ server[j].pc = "idle" /\ server[j].err = "FileExistsError"
          /\ j \notin Spawners

\* C8: constructing a server on a target_dir that exists fails, gives no
\* server object and changes nothing in the filesystem.
C8_ExistingTargetRefused ==
    [][\A i \in Servers :
          (server[i].pc = "new" /\ server'[i].pc # "new"
              /\ server'[i].target_dir \in fs)
          => (server'[i].pc = "dead" /\ fs' = fs)]_vars

\* a construction on an existing sandbox has failed with FileExistsError
C8_Witness ==
    \E i \in Servers :
        /\ server[i].pc = "dead"
        /\ server[i].err = "FileExistsError"
        /\ server[i].target_dir \in fs

ExampleUrl == <<"http://", "127.0.0.1", ":", "54321">>

\* some pattern of URL_PATTERNS matches the line
HasUrl(line) == \E n \in 1..Len(PatternLiteral) : Search(n, line) # NoMatch

\* the group of the first pattern, in the order of URL_PATTERNS, that matches
FirstPatternUrl(line) ==
    Search(CHOOSE n \in 1..Len(PatternLiteral) :
              /\ Search(n, line) # NoMatch
              /\ \A m \in 1..(n - 1) : Search(m, line) = NoMatch,
           line)

\* C10: when wait_for_url returns a URL, the lines it read are the child's
\* next lines in order, none before the last of them matches a pattern, the
\* last one matches and the result is the group of its first matching
\* pattern, base_url is the result, and no line after it has been read; the
\* line 'Server running at http://127.0.0.1:54321' gives
\* 'http://127.0.0.1:54321'.
C10_EarliestUrlLineReturned ==
    (pm.op = "wait_for_url" /\ pm.outcome = "url")
    => LET n == Len(pm.read)
       IN /\ n >= 1
          /\ pm.before + n <= Len(pmOut.written)
          /\ pm.read = SubSeq(pmOut.written, pm.before + 1, pm.before + n)
          /\ \A k \in 1..(n - 1) : ~HasUrl(pm.read[k])
          /\ HasUrl(pm.read[n])
          /\ pm.result = FirstPatternUrl(pm.read[n])
          /\ pm.base_url = pm.result
          /\ pmOut.consumed = pm.before + n
          /\ (pm.read[n] = ExampleLine => pm.result = ExampleUrl)

C10_Witness ==
    /\ pm.op = "wait_for_url"
    /\ pm.outcome = "url"
    /\ pm.before = 0
    /\ Len(pm.read) = 2
    /\ pm.read[2] = ExampleLine
    /\ pm.result = ExampleUrl
    /\ pm.read[1] = <<"starting">>

\* wait_for_url has returned or raised
WaitForUrlDone == pm.op = "wait_for_url" /\ pm.pc = "idle" /\ pm.outcome # ""

\* C11: when wait_for_url has met the end of the child's stdout (the child
\* has terminated or closed its stdout) before it read a line with a URL, it
\* fails with the startup error, not with TimeoutError and not with a URL.
C11_EndOfOutputIsStartupError ==
    (WaitForUrlDone /\ pm.eof) => pm.outcome = StartupErrorDied

\* C12: wait_for_url raises TimeoutError only when startup_timeout has
\* elapsed, no line with a URL was read and the child is alive.
C12_TimeoutOnlyAtDeadline ==
    (WaitForUrlDone /\ pm.outcome = "TimeoutError")
    => /\ pm.elapsed >= StartupTimeout
       /\ \A k \in 1..Len(pm.read) : ~HasUrl(pm.read[k])

\* C13: wait_for_url never blocks without bound: once called, it returns a
\* URL or raises, whatever the child does.
C13_WaitForUrlEnds ==
    (pm.pc \in {"waiting", "after_loop"}) ~> (pm.pc = "idle")

\* C14: shutdown() of a running child sends SIGTERM first; SIGKILL follows
\* exactly when the child has not exited within the grace period; either way
\* the child is reaped.
C14_TerminateThenKill ==
    [][(PmShutdown /\ IsRunning)
          => (/\ pm'.signals # <<>>
              /\ pm'.signals[1] = "SIGTERM"
              /\ pm'.in_grace => pm'.signals = <<"SIGTERM">>
              /\ ~pm'.in_grace => pm'.signals = <<"SIGTERM", "SIGKILL">>
              /\ pmProcs'[pm.process] = "reaped")]_vars

\* shutdown() has killed a child that did not exit within the grace period
C14_Witness ==
    /\ pm.op = "shutdown"
    /\ pm.signals = <<"SIGTERM", "SIGKILL">>
    /\ \E p \in 1..MaxProcs : pmProcs[p] = "reaped"

\* C15: when shutdown() has returned, the child that was in the handle has
\* exited and is reaped, no child is alive, the handle and base_url are None
\* and is_running is false.
C15_ShutdownLeavesNothing ==
    [][PmShutdown
          => (/\ pm'.process = None
              /\ pm'.base_url = <<>>
              /\ ~IsRunning'
              /\ pm.process # None => pmProcs'[pm.process] = "reaped"
              /\ \A p \in 1..MaxProcs : pmProcs'[p] \in {"unused", "reaped"})]_vars

\* shutdown() has returned after wait_for_url had found the URL of a child
\* that exited within the grace period
C15_Witness ==
    /\ pm.op = "shutdown"
    /\ pm.signals = <<"SIGTERM">>
    /\ pm.result # <<>>
    /\ pm.base_url = <<>>
    /\ pm.process = None

C17_GetOutputEnds ==
    (pm.pc = "get_output") ~> (pm.pc = "idle")

\* the lines get_output may still return
Allowed == IF pm.asked > 0 THEN pm.asked ELSE 0

\* C18: get_output(limit) has at most limit lines in its list, none when
\* limit <= 0 or when there is no process, and readline() has returned no
\* more than limit lines of the two streams to it.
C18_AtMostLimitLines ==
    pm.op = "get_output"
    => /\ Len(pm.read) <= Allowed
       /\ pm.process = None => pm.read = <<>>
       /\ pm.process # None
             => (pmOut.consumed + pmErr.consumed) - pm.before = Len(pm.read)

\* get_output(1) has returned one line although both streams had a line
C18_Witness ==
    /\ pm.op = "get_output"
    /\ pm.pc = "idle"
    /\ pm.asked = 1
    /\ Len(pm.read) = 1
    /\ pmOut.consumed = 1
    /\ pmErr.consumed = 0
    /\ Len(pmErr.written) >= 1

(***************************************************************************)
(* Claims about the scoped use of the OpencodeServer                       *)
(***************************************************************************)
\* the use of server i in a `with` statement is over: __enter__ has raised
\* after the child was spawned, or __exit__ has run
UseEnded(i) ==
    /\ server[i].pc = "idle"
    /\ server[i].err = "TimeoutError" \/ server[i].process = None

C20_DeleteAfterShutdown ==
    [][(\E path \in fs : path \notin fs')
          => \E i \in Servers :
                /\ server[i].pc = "exit_cleanup"
                /\ server'[i].pc = "idle"
                /\ server[i].process = None
                /\ \A p \in 1..MaxProcs :
                      procs[p].owner = i => procs[p].state = "reaped"]_vars

\* __exit__ has deleted the sandbox of a server whose child it had shut down
C20_Witness ==
    /\ rmtreed
    /\ server[1].pc = "idle"
    /\ server[1].target_dir \notin fs
    /\ \E p \in 1..MaxProcs : procs[p].owner = 1 /\ procs[p].state = "reaped"

(***************************************************************************)
(* Claims about the sandbox after __exit__                                 *)
(***************************************************************************)
\* server i finishes its __exit__ in this step
ExitEnds(i) == server[i].pc = "exit_cleanup" /\ server'[i].pc = "idle"

\* C21: when __exit__ of a server ends, its target_dir does not exist if
\* delete_target_dir_on_exit is set, and with the flag unset the step has
\* changed nothing in the file system: a preserved sandbox keeps all of its
\* contents.
C21_DeletedOrPreserved ==
    [][\A i \in Servers :
          ExitEnds(i)
          => IF server[i].delete_target_dir_on_exit
             THEN \A q \in fs' : ~IsRelativeTo(q, server[i].target_dir)
             ELSE fs' = fs]_vars

\* a server that preserves its sandbox has left its `with` block: the child
\* is reaped and the copied files are still there
C21_Witness ==
    /\ server[1].pc = "idle"
    /\ ~server[1].delete_target_dir_on_exit
    /\ server[1].process = None
    /\ \E p \in 1..MaxProcs : procs[p].owner = 1 /\ procs[p].state = "reaped"
    /\ OpencodeJsonDest(server[1].target_dir) \in fs
    /\ ServerLogFile(server[1].target_dir) \in fs

\* C22: cleanup() never raises: on a target_dir that is not there (never
\* created, or removed by an earlier cleanup) it returns normally.
C22_CleanupNeverRaises ==
    [][IsoCleanup => iso'.err = ""]_vars

(***************************************************************************)
(* Claims about the readiness probe                                        *)
(***************************************************************************)
\* some health call has returned an object by the deadline
HealthOkInTime ==
    \E k \in 1..Len(probe.calls) :
        /\ probe.calls[k].result = "app_info"
        /\ probe.calls[k].ended <= StartupTimeout

\* C23: when _wait_for_ready has ended, it has returned normally exactly if
\* some health call succeeded before the startup timeout had passed, and
\* otherwise it has raised TimeoutError, not before the deadline.
C23_ReadyIffHealthOkInTime ==
    probe.pc = "done"
    => /\ probe.outcome = "ready" <=> HealthOkInTime
       /\ probe.outcome # "ready"
          => probe.outcome = "TimeoutError" /\ probe.elapsed >= StartupTimeout

\* some health call that was begun before the deadline has returned an object
HealthOkBegunInTime ==
    \E k \in 1..Len(probe.calls) :
        /\ probe.calls[k].result = "app_info"
        /\ probe.calls[k].began < StartupTimeout

\* C23 (amended): when _wait_for_ready has ended, it has returned normally
\* exactly if some health call begun before the startup timeout had passed
\* returned an object, whenever that call came back; otherwise it has raised
\* TimeoutError, at or after the deadline: a health call that fails never
\* ends the wait.
C23_ReadyIffHealthOkBegunInTime ==
    probe.pc = "done"
    => /\ probe.outcome = "ready" <=> HealthOkBegunInTime
       /\ probe.outcome # "ready"
          => probe.outcome = "TimeoutError" /\ probe.elapsed >= StartupTimeout

\* the probe has got through a failed health call and then a good one
C23_Witness ==
    /\ probe.pc = "done"
    /\ probe.outcome = "ready"
    /\ Len(probe.calls) >= 2
    /\ probe.calls[1].result = "raises"
    /\ probe.calls[Len(probe.calls)].ended <= StartupTimeout

(***************************************************************************)
(* Claims about the validation of the inputs                               *)
(***************************************************************************)
\* the ConfigurationError that names an input
NamedIn(err) ==
    CASE err = "ConfigurationError: Auth file not found" -> "auth_file"
      [] err = "ConfigurationError: Config directory not found" -> "opencode_config_dir"
      [] err = "ConfigurationError: Config file not found" -> "opencode_json"
      [] OTHER -> "none"

\* C24: a setup_environment call with a missing input raises a
\* ConfigurationError that names a missing input, and it has created and
\* copied nothing: the file system is as before and the loop that makes
\* the directories is not entered.
C24_MissingInputFailsFirst ==
    [][\A auth \in {AuthFile, Missing}, cfgdir \in {ConfigDir, Missing},
          json \in {ConfigJson, Missing} :
          (IsoSetupWith(auth, cfgdir, json)
              /\ MissingInputs(fs, auth, cfgdir, json) # {})
          => (/\ NamedIn(iso'.err) \in MissingInputs(fs, auth, cfgdir, json)
              /\ iso'.pc = "idle"
              /\ fs' = fs)]_vars

\* setup_environment has failed for a missing config file on a fresh
\* target_dir
C24_Witness ==
    /\ iso.pc = "idle"
    /\ NamedIn(iso.err) = "opencode_json"
    /\ iso.target_dir \notin fs

(***************************************************************************)
(* Claims about the opencode binary                                        *)
(***************************************************************************)
\* the path exists, is a regular file and has an execute bit
ValidBinary(tree, binary) ==
    binary \in tree /\ IsFile(binary) /\ ExecBits(binary)

\* C25: a ProcessManager and an OpencodeServer that have been constructed
\* hold a binary that exists, is a regular file and has an execute bit, and
\* no Popen is called with another path.
C25_ConstructedOnlyWithValidBinary ==
    /\ pm.pc \notin {"new", "dead"} => ValidBinary(fs, pm.opencode_binary)
    /\ \A i \in Servers :
          /\ server[i].pc \notin {"new", "dead"}
             => ValidBinary(fs, server[i].opencode_binary)
          /\ server[i].err # "PermissionError"

(***************************************************************************)
(* Claims about the ModelSelector                                          *)
(***************************************************************************)
\* the positions of the "/" in a model string
Slashes(s) == {k \in 1..Len(s) : s[k] = "/"}

\* the config file parses and its "model" field is "<provider>/<model>"
ExplicitModel(config) ==
    /\ config.kind = "object"
    /\ config.model.type = "string"
    /\ Cardinality(Slashes(config.model.str)) = 1

IsConfigurationError(result) ==
    result.kind \in {"ConfigurationError: Failed to load auth file",
                     "ConfigurationError: No valid authentication providers found"}

\* C26: with a config file that parses and a "model" field of exactly two
\* segments, get_default_model returns the two segments as they are,
\* whatever the auth file is.
C26_ConfiguredModelVerbatim ==
    (sel.pc = "done" /\ ExplicitModel(sel.config))
    => LET s == sel.config.model.str
           k == CHOOSE j \in Slashes(s) : TRUE
       IN sel.result = Pair(SubSeq(s, 1, k - 1), SubSeq(s, k + 1, Len(s)))

\* the configured pair has been returned although the auth file is not JSON
C26_Witness ==
    /\ sel.pc = "done"
    /\ sel.config.model.str = <<"openai", "/", "gpt-4o-mini">>
    /\ sel.auth.kind = "malformed"
    /\ sel.result = Pair(<<"openai">>, <<"gpt-4o-mini">>)

\* C27: when the config file gives no "<provider>/<model>" and the auth file
\* is a mapping with keys, get_default_model returns the first of
\* anthropic, openai, google that is a key, with its cheap model, in
\* whatever order the keys are; with none of the three among the keys it
\* returns one of the keys with the fallback model.
C27_PreferenceOrder ==
    (sel.pc = "done" /\ ~ExplicitModel(sel.config)
        /\ sel.auth.kind = "object" /\ sel.auth.keys # <<>>)
    => LET keys == Range(sel.auth.keys) IN
       /\ sel.result.kind = "pair"
       /\ "anthropic" \in keys
          => sel.result = Pair(<<"anthropic">>, <<"claude-3-5-haiku-20241022">>)
       /\ ("anthropic" \notin keys /\ "openai" \in keys)
          => sel.result = Pair(<<"openai">>, <<"gpt-4o-mini">>)
       /\ ("anthropic" \notin keys /\ "openai" \notin keys /\ "google" \in keys)
          => sel.result = Pair(<<"google">>, <<"gemini-1.5-flash">>)
       /\ keys \cap {"anthropic", "openai", "google"} = {}
          => /\ sel.result.provider \in {<<p>> : p \in keys}
             /\ sel.result.model = FallbackModel

\* C28: get_default_model raises ConfigurationError exactly if the config
\* file gives no "<provider>/<model>" and the auth file is missing,
\* unreadable, not JSON, not a mapping or an empty mapping; in every other
\* case it returns a pair.
C28_ConfigurationErrorExactly ==
    sel.pc = "done"
    => LET fatal == /\ ~ExplicitModel(sel.config)
                    /\ \/ sel.auth.kind # "object"
                       \/ sel.auth.keys = <<>>
       IN /\ IsConfigurationError(sel.result) <=> fatal
          /\ ~fatal => sel.result.kind = "pair"

(***************************************************************************)
(* Claims about the SessionManager                                         *)
(***************************************************************************)
\* C29: an operation of the SessionManager whose remote call has raised
\* ends with a SessionError for the caller.
C29_RemoteFailureIsSessionError ==
    sess.failed => sess.outcome = "SessionError"

C31_NewMessagesAreTheAppended ==
    [][(track'.op = "get_new_messages" /\ track'.outcome = "return"
        /\ track'.remote = track.remote /\ track' # track)
       => track'.result = SubSeq(track.remote, track.seen + 1, Len(track.remote))]_vars

\* a get_new_messages call has returned the messages appended after an
\* earlier read, and not the ones that read saw
C31_Witness ==
    /\ track.op = "get_new_messages"
    /\ track.outcome = "return"
    /\ track.result # <<>>
    /\ track.result[1] > 1

\* C37: in the polling loop no call of get_messages_since returns a message
\* that an earlier call of the loop has returned
C37_NoMessageTwice ==
    [][(poll'.outcome = "return" /\ poll'.remote = poll.remote)
       => Range(poll'.messages) \cap poll.returned = {}]_vars

(***************************************************************************)
(* Claims about abort_all_sessions                                         *)
(***************************************************************************)

\* C32: when abort_all_sessions has ended, abort_session has been called
\* once for every session of the listing, in the order of the listing,
\* whichever of these calls failed, and the caller got a normal return
C32_AbortAllAttemptsEvery ==
    sess.op = "abort_all_sessions"
        => /\ sess.aborts = sess.listing
           /\ sess.outcome = "return"

\* abort_all_sessions has ended after the abort of the first listed session
\* failed and the second was still attempted
C32_Witness ==
    /\ sess.op = "abort_all_sessions"
    /\ Len(sess.listing) = 2
    /\ sess.listing[1] \in sess.result
    /\ Len(sess.aborts) = 2

(***************************************************************************)
(* Claims about the child dying during startup                             *)
(***************************************************************************)

\* C33: when the wait for the URL ends in a failure while the child has
\* exited and no URL line was read, the failure of __enter__ is a startup
\* error that reports the death of the process, not a TimeoutError
C33_DeathReportedNotTimeout ==
    [][\A i \in Servers :
          (/\ server[i].pc = "wait_url"
           /\ server'[i].pc = "idle"
           /\ server[i].base_url = NoUrl
           /\ procs[server[i].process].state = "exited")
          => server'[i].err = "ServerStartupError"]_vars

(***************************************************************************)
(* Claims about the ProcessManager's base_url                              *)
(***************************************************************************)

\* C34: base_url belongs to the process in the handle: it is null while
\* there is no handle, and a start() that puts a new process in the handle
\* leaves it null, so that the URL of an earlier process is not seen
C34_BaseUrlOfHeldProcess ==
    /\ [](pm.process = None => pm.base_url = <<>>)
    /\ [][pm'.process # pm.process => pm'.base_url = <<>>]_vars

(***************************************************************************)
(* Claims about a setup that ends in an isolation violation                *)
(***************************************************************************)

\* C35: when _setup_environment has raised the isolation violation, no path
\* that the setup created lies under a sensitive path of the real home or
\* the real XDG directories
C35_NothingCreatedInRealDirs ==
    \A i \in Servers :
        server[i].err = "ISOLATION VIOLATION"
            => \A p \in fs \ InitialTree, sp \in SensitivePaths(ambient) :
                  ~IsRelativeTo(p, sp)

(***************************************************************************)
(* Claims about the session operations of a server that is not running     *)
(***************************************************************************)

\* C36: a session operation called while the server holds no process, before
\* __enter__ or after __exit__, fails with the 'Server not started'
\* RuntimeError, and once __exit__ has shut the process down the server
\* holds no client and no base_url
C36_NotStartedWhenNotRunning ==
    /\ [][\A i \in Servers :
            (called' # called /\ called'.server = i /\ server[i].process = None)
            => called'.outcome = "RuntimeError: Server not started"]_vars
    /\ [](\A i \in Servers :
            server[i].pc = "exit_cleanup"
            => server[i].client = NoUrl /\ server[i].base_url = NoUrl)

(***************************************************************************)
(* Claims about the two model selections                                   *)
(***************************************************************************)

\* C38: called on the same config file and auth file,
\* ModelSelector.get_default_model and OpencodeServer._get_default_model
\* return the same (provider, model) pair, or both raise
C38_SameSelection ==
    chosen # NoResult
        => \/ sel.result.kind = "pair" /\ chosen = sel.result
           \/ sel.result.kind # "pair" /\ chosen.kind # "pair"

====
